---------------------------- MODULE Spec2Model ----------------------------
(***************************************************************************)
(* Model of tools/csv2binary_flash.py: the CSV to binary database          *)
(* converter, and of the planting density of tools/csv2plant_full.py, the  *)
(* plant database generator.  Text is a sequence of Unicode code points,   *)
(* bytes are integers 0..255, a byte string is a sequence of bytes.  A     *)
(* 32-bit unsigned value that can exceed 2^31-1 (the CRC) is carried as    *)
(* its two 16-bit halves [hi, lo].                                         *)
(***************************************************************************)
EXTENDS Integers, Sequences, FiniteSets, TLC

(***************************************************************************)
(* Bounds of the model.                                                    *)
(***************************************************************************)
\* longest CSV (data rows) of the schema under study
MaxRows == 2

\* runs of the converter on the same input directory
MaxRuns == 2

\* widest buffer asked of encode_string on its own
MaxWidth == 25

\* rows of a long CSV counted on either side of the 16-bit limit
MaxOver == 2

(***************************************************************************)
(* Program constants (csv2binary_flash.py lines 25-56).                    *)
(***************************************************************************)
DB_MAGIC_PLANT == 1347178068
DB_MAGIC_SOIL == 1397705036
DB_MAGIC_IRRIGATION == 1230131783
DB_VERSION_CURRENT == 1
HEADER_SIZE == 16
PLANT_RECORD_SIZE == 48
SOIL_RECORD_SIZE == 24
IRRIGATION_RECORD_SIZE == 24

Min(a, b) == IF a <= b THEN a ELSE b
Max(a, b) == IF a >= b THEN a ELSE b

\* n zero bytes: b'\x00' * n (empty when n <= 0)
Zeros(n) == [i \in 1..n |-> 0]

\* s[:n] of a Python sequence, n >= 0
Take(s, n) == SubSeq(s, 1, Min(n, Len(s)))

\* s[:n] of a Python sequence for any n (a negative n counts from the end)
SliceTo(s, n) == IF n >= 0 THEN Take(s, n) ELSE SubSeq(s, 1, Len(s) + n)

(***************************************************************************)
(* zlib.crc32: CRC-32 (reflected polynomial EDB88320, initial value and    *)
(* final xor FFFFFFFF), table driven, on [hi, lo] halves.                  *)
(***************************************************************************)
\* the xor of two 4-bit values: XorNibble[a + 1][b + 1]
XorNibble ==
  <<<< 0,  1,  2,  3,  4,  5,  6,  7,  8,  9, 10, 11, 12, 13, 14, 15>>,
    << 1,  0,  3,  2,  5,  4,  7,  6,  9,  8, 11, 10, 13, 12, 15, 14>>,
    << 2,  3,  0,  1,  6,  7,  4,  5, 10, 11,  8,  9, 14, 15, 12, 13>>,
    << 3,  2,  1,  0,  7,  6,  5,  4, 11, 10,  9,  8, 15, 14, 13, 12>>,
    << 4,  5,  6,  7,  0,  1,  2,  3, 12, 13, 14, 15,  8,  9, 10, 11>>,
    << 5,  4,  7,  6,  1,  0,  3,  2, 13, 12, 15, 14,  9,  8, 11, 10>>,
    << 6,  7,  4,  5,  2,  3,  0,  1, 14, 15, 12, 13, 10, 11,  8,  9>>,
    << 7,  6,  5,  4,  3,  2,  1,  0, 15, 14, 13, 12, 11, 10,  9,  8>>,
    << 8,  9, 10, 11, 12, 13, 14, 15,  0,  1,  2,  3,  4,  5,  6,  7>>,
    << 9,  8, 11, 10, 13, 12, 15, 14,  1,  0,  3,  2,  5,  4,  7,  6>>,
    <<10, 11,  8,  9, 14, 15, 12, 13,  2,  3,  0,  1,  6,  7,  4,  5>>,
    <<11, 10,  9,  8, 15, 14, 13, 12,  3,  2,  1,  0,  7,  6,  5,  4>>,
    <<12, 13, 14, 15,  8,  9, 10, 11,  4,  5,  6,  7,  0,  1,  2,  3>>,
    <<13, 12, 15, 14,  9,  8, 11, 10,  5,  4,  7,  6,  1,  0,  3,  2>>,
    <<14, 15, 12, 13, 10, 11,  8,  9,  6,  7,  4,  5,  2,  3,  0,  1>>,
    <<15, 14, 13, 12, 11, 10,  9,  8,  7,  6,  5,  4,  3,  2,  1,  0>> >>

Xor8(a, b) ==
    XorNibble[(a % 16) + 1][(b % 16) + 1] + 16 * XorNibble[(a \div 16) + 1][(b \div 16) + 1]

Xor16(a, b) == Xor8(a % 256, b % 256) + 256 * Xor8(a \div 256, b \div 256)

Xor32(x, y) == [hi |-> Xor16(x.hi, y.hi), lo |-> Xor16(x.lo, y.lo)]

ToU32(n) == [hi |-> n \div 65536, lo |-> n % 65536]

Shr8(x) == [hi |-> x.hi \div 256, lo |-> (x.lo \div 256) + 256 * (x.hi % 256)]

\* the 256-entry table of zlib's crc32 (entry i is i shifted right eight times,
\* xoring in the polynomial EDB88320 on each carry out), as the high and the
\* low halves of its entries, entry i at index i + 1
CrcTableHi ==
  <<0, 30471, 60942, 39177,  1901, 28778, 59747, 40548,
     3803, 31196, 57557, 38866,  2486, 32433, 59320, 37055,
     7607, 27312, 62393, 33982,  6874, 28125, 62676, 33747,
     4972, 25707, 64866, 35429,  5121, 25350, 64015, 36104,
    15214, 19561, 54624, 41575, 15363, 19204, 53773, 42250,
    13749, 17074, 56251, 44220, 13016, 17887, 56534, 43985,
     9945, 20958, 51415, 49104,  8628, 22195, 53178, 47293,
    10242, 24325, 50700, 45323, 12143, 22632, 49505, 46694,
    30428,   475, 39122, 61397, 29105,  1718, 40895, 59576,
    30727,  3840, 38409, 57614, 32618,  2157, 37220, 58979,
    27499,  7276, 34149, 62050, 27654,  6913, 33288, 62735,
    26032,  4791, 35774, 64697, 25309,  5594, 36051, 64468,
    19890, 15029, 41916, 54459, 19167, 15832, 42193, 54230,
    17257, 13422, 44391, 55904, 17412, 13059, 43530, 56589,
    20485,  9986, 48651, 51468, 22376,  8303, 47462, 52833,
    24286, 10713, 45264, 51159, 22963, 11956, 47037, 49338,
    60856, 39615,   950, 29873, 60117, 40402,  1243, 29660,
    58211, 37988,  3437, 31338, 58382, 37641,  2560, 32007,
    61455, 34568,  7681, 26886, 63330, 32869,  6508, 28267,
    65236, 35283,  4314, 26589, 63929, 36542,  6071, 24752,
    54998, 41425, 14552, 20447, 53691, 42684, 16309, 18610,
    55309, 44810, 13827, 16644, 57184, 43111, 12654, 18025,
    52065, 48230,  9583, 21096, 52236, 47883,  8706, 21765,
    50618, 45757, 11188, 23731, 49879, 46544, 11481, 23518,
    39780, 60515, 30058,   621, 39945, 60174, 29191,  1280,
    38335, 58040, 31665,  3254, 37586, 58837, 31964,  3035,
    34515, 61908, 26845,  8154, 33214, 63161, 28592,  6327,
    34824, 65295, 26118,  4353, 36709, 63586, 24939,  5740,
    40970, 55053, 19972, 14595, 42855, 53344, 18793, 15982,
    44753, 55766, 16607, 14296, 43452, 57019, 18354, 12469,
    48573, 51898, 21427,  9396, 47824, 52695, 21726,  9177,
    45926, 50273, 23912, 10863, 46091, 49932, 23045, 11522 >>

CrcTableLo ==
  <<0, 12438, 24876, 20922, 50201, 62607, 42293, 38307,
    34866, 47268, 59678, 55688, 19499, 31933, 11527,  7569,
     4196,  8434, 29000, 16862, 54397, 58603, 46417, 34247,
    38998, 43200, 63866, 51692, 23631, 27865, 15715,  3573,
     8392,  4190, 16868, 29042, 58577, 54343, 34301, 46443,
    43258, 39020, 51670, 63808, 27875, 23669,  3535, 15705,
    12460,    58, 20864, 24854, 62645, 50211, 38297, 42255,
    47262, 34824, 55730, 59684, 31879, 19473,  7595, 11581,
    16784, 28934,  8380,  4138, 34185, 46367, 58533, 54323,
    51618, 63796, 43150, 38936,  3515, 15661, 27799, 23553,
    20980, 24930, 12504,    78, 38381, 42363, 62657, 50263,
    55750, 59728, 47338, 34940,  7647, 11593, 31987, 19557,
    24920, 20942,   116, 12514, 42305, 38359, 50285, 62715,
    59754, 55804, 34886, 47312, 11635,  7653, 19551, 31945,
    28988, 16810,  4112,  8326, 46373, 34227, 54281, 58527,
    63758, 51608, 38946, 43188, 15639,  3457, 23611, 27821,
    33568, 46006, 57868, 53914, 18233, 30639,  9749,  5763,
     2834, 15236, 27198, 23208, 53003, 65437, 44583, 40625,
    37700, 41938, 62056, 49918, 22365, 26571, 13937,  1767,
     7030, 11232, 31322, 19148, 57199, 61433, 48707, 36565,
    41960, 37758, 49860, 62034, 26609, 22375,  1757, 13899,
    11226,  6988, 19190, 31328, 61379, 57173, 36591, 48761,
    45964, 33562, 53920, 57910, 30613, 18179,  5817,  9775,
    15294,  2856, 23186, 27140, 65447, 53041, 40587, 44573,
    49840, 61990, 41884, 37642,  1705, 13887, 26501, 22291,
    19074, 31252, 11182,  6968, 36507, 48653, 61367, 57121,
    53972, 57922, 46072, 33646,  5837,  9819, 30689, 18295,
    23270, 27248, 15306,  2908, 40703, 44649, 65491, 53061,
    57976, 53998, 33620, 46018,  9825,  5879, 18253, 30683,
    27210, 23260,  2918, 15344, 44627, 40645, 53119, 65513,
    61980, 49802, 37680, 41894, 13829,  1683, 22313, 26559,
    31278, 19128,  6914, 11156, 48695, 36513, 57115, 61325 >>

CrcTable(i) == [hi |-> CrcTableHi[i + 1], lo |-> CrcTableLo[i + 1]]

\* one byte into the CRC register
CrcByte(c, b) == Xor32(CrcTable(Xor8(c.lo % 256, b)), Shr8(c))

\* the CRC register c after bytes data[from..to], left to right.  The range is
\* halved and the register of the left half is bound as a value before the
\* right half starts, so that the evaluation stays shallow.
RECURSIVE CrcUpdate(_, _, _, _)
CrcUpdate(c, data, from, to) ==
    IF from > to THEN c
    ELSE IF from = to THEN CrcByte(c, data[from])
    ELSE LET mid == (from + to) \div 2
         IN  CHOOSE r \in {CrcUpdate(left, data, mid + 1, to) :
                              left \in {CrcUpdate(c, data, from, mid)}} : TRUE

\* the register as the last byte leaves it, without the final complement
ZlibCrc32Raw(data) ==
    CHOOSE r \in {c : c \in {CrcUpdate([hi |-> 65535, lo |-> 65535], data, 1, Len(data))}} : TRUE

ZlibCrc32(data) ==
    CHOOSE r \in {[hi |-> 65535 - c.hi, lo |-> 65535 - c.lo] :
                    c \in {CrcUpdate([hi |-> 65535, lo |-> 65535], data, 1, Len(data))}} : TRUE

\* the checksum masked to its low 16 bits
calc_crc32_Low16(data) == [hi |-> 0, lo |-> ZlibCrc32(data).lo]

\* calc_crc32: zlib.crc32(data) & 0xFFFFFFFF (the mask keeps all 32 bits)
calc_crc32(data) == ZlibCrc32(data)

(***************************************************************************)
(* struct.pack, little-endian, no alignment ('<').  A packed value is      *)
(* [exc, bytes]: exc = "none" and the bytes, or the exception raised.      *)
(***************************************************************************)
NoExc == "none"

Ok(b) == [exc |-> NoExc, bytes |-> b]
Raise(e) == [exc |-> e, bytes |-> <<>>]

\* 'B': one byte, struct.error outside 0..255
PackB(v) == IF v >= 0 /\ v <= 255 THEN Ok(<<v>>) ELSE Raise("struct.error")

\* 'H' keeping the low 16 bits of any value
PackHWrapped(v) == Ok(<<v % 256, (v \div 256) % 256>>)

\* 'H': two bytes little-endian, struct.error outside 0..65535
PackH(v) ==
    IF v >= 0 /\ v <= 65535 THEN Ok(<<v % 256, v \div 256>>) ELSE Raise("struct.error")

\* 'I' of a value held as halves: four bytes little-endian
PackI(x) == Ok(<<x.lo % 256, x.lo \div 256, x.hi % 256, x.hi \div 256>>)

\* 'ns': the bytes cut or zero-padded to exactly n
PackS(b, n) == Ok(Take(b, n) \o Zeros(n - Len(b)))

\* the fields of one struct.pack call joined in order; the first failing
\* field's exception is the call's
RECURSIVE PackAll(_, _)
PackAll(fields, i) ==
    IF i > Len(fields) THEN Ok(<<>>)
    ELSE IF fields[i].exc # NoExc THEN Raise(fields[i].exc)
    ELSE LET rest == PackAll(fields, i + 1)
         IN  IF rest.exc # NoExc THEN rest ELSE Ok(fields[i].bytes \o rest.bytes)

(***************************************************************************)
(* Text.  A str is a tuple of code points; None (the value csv.DictReader  *)
(* gives a cell that is missing from a short row) is the tuple <<-1>>.     *)
(***************************************************************************)
None == <<-1>>

IsSpace(c) == c \in {9, 10, 11, 12, 13, 28, 29, 30, 31, 32, 133, 160}

IsDigit(c) == c >= 48 /\ c <= 57

\* str.lower / str.upper on one code point (ASCII letters; the accented
\* letters of the Latin-1 and Latin Extended-A blocks that the inputs use)
LowerChar(c) ==
    IF c >= 65 /\ c <= 90 THEN c + 32
    ELSE IF c >= 192 /\ c <= 222 /\ c # 215 THEN c + 32
    ELSE IF c >= 256 /\ c <= 303 /\ c % 2 = 0 THEN c + 1
    ELSE c

UpperChar(c) ==
    IF c >= 97 /\ c <= 122 THEN c - 32
    ELSE IF c >= 224 /\ c <= 254 /\ c # 247 THEN c - 32
    ELSE IF c >= 256 /\ c <= 303 /\ c % 2 = 1 THEN c - 1
    ELSE c

Lower(s) == [i \in 1..Len(s) |-> LowerChar(s[i])]
Upper(s) == [i \in 1..Len(s) |-> UpperChar(s[i])]

\* the least and the greatest element of a nonempty set of integers
MinOf(S) == CHOOSE i \in S : \A j \in S : i <= j
MaxOf(S) == CHOOSE i \in S : \A j \in S : i >= j

\* the positions of s that hold no whitespace
InkAt(s) == {i \in 1..Len(s) : ~IsSpace(s[i])}

\* s[from..to] for the positions kept
StripTo(s, keep) == IF keep = {} THEN <<>> ELSE SubSeq(s, MinOf(keep), MaxOf(keep))

\* str.strip(): without the leading and trailing whitespace
Strip(s) == StripTo(s, InkAt(s))

\* c in s
Contains(s, c) == \E i \in 1..Len(s) : s[i] = c

\* the positions of '-' in s
DashAt(s) == {i \in 1..Len(s) : s[i] = 45}

\* s.split('-')[0] and s.split('-')[1] for the dash positions d (not empty):
\* the text before the first '-' and the text from there to the next '-' or
\* the end
Part0At(s, d) == SubSeq(s, 1, MinOf(d) - 1)
Part1At(s, d) ==
    SubSeq(s, MinOf(d) + 1, IF Cardinality(d) = 1 THEN Len(s) ELSE MinOf(d \ {MinOf(d)}) - 1)

SplitPart0(s) == Part0At(s, DashAt(s))
SplitPart1(s) == Part1At(s, DashAt(s))

\* the UTF-8 bytes of one code point; errors='replace' turns a lone surrogate
\* into '?'
Utf8Char(c) ==
    IF c < 128 THEN <<c>>
    ELSE IF c < 2048 THEN <<192 + (c \div 64), 128 + (c % 64)>>
    ELSE IF c >= 55296 /\ c <= 57343 THEN <<63>>
    ELSE IF c < 65536 THEN <<224 + (c \div 4096), 128 + ((c \div 64) % 64), 128 + (c % 64)>>
    ELSE <<240 + (c \div 262144), 128 + ((c \div 4096) % 64),
           128 + ((c \div 64) % 64), 128 + (c % 64)>>

\* s.encode('utf-8', errors='replace')
RECURSIVE Utf8(_)
Utf8(s) == IF s = <<>> THEN <<>> ELSE Utf8Char(Head(s)) \o Utf8(Tail(s))

\* encoded + b'\x00' * (max_len - len(encoded))
ZeroPad(encoded, max_len) == encoded \o Zeros(max_len - Len(encoded))

\* encode_string (lines 98-101)
encode_string(s, max_len) == ZeroPad(SliceTo(Utf8(s), max_len - 1), max_len)

(***************************************************************************)
(* IEEE 754 binary64 arithmetic, as far as the converter uses it: the      *)
(* nearest double of a decimal numeral, its product with 100 or 10         *)
(* (correctly rounded, ties to even) and int().  Integers beyond 31 bits   *)
(* are tuples of eight 15-bit limbs, least significant first.  The domain  *)
(* is the numerals N / 10^k with N < 10^9, k <= 4 and N / 10^k >= 10^-4.   *)
(***************************************************************************)
LimbBase == 32768

Pow2Tab == <<1, 2, 4, 8, 16, 32, 64, 128, 256, 512, 1024, 2048, 4096, 8192, 16384, 32768>>
Pow2(k) == Pow2Tab[k + 1]

Limb(a, i) == IF i >= 1 /\ i <= 8 THEN a[i] ELSE 0

\* the number of bits of a limb value
LimbBits(v) == Cardinality({k \in 0..14 : Pow2(k) <= v})

\* the number of bits of a whose nonzero limbs are at nz
BitLenAt(a, nz) == IF nz = {} THEN 0 ELSE 15 * (MaxOf(nz) - 1) + LimbBits(a[MaxOf(nz)])

\* the number of bits of a (0 for zero)
BitLen(a) == BitLenAt(a, {i \in 1..8 : a[i] # 0})

\* limb i of a >> (15 q + b), with p = 2^b and r = 2^(15 - b)
ShrLimb(a, i, q, p, r) == (Limb(a, i + q) \div p) + (Limb(a, i + q + 1) % p) * r

ShrBy(a, q, p, r) ==
    << ShrLimb(a, 1, q, p, r), ShrLimb(a, 2, q, p, r), ShrLimb(a, 3, q, p, r),
       ShrLimb(a, 4, q, p, r), ShrLimb(a, 5, q, p, r), ShrLimb(a, 6, q, p, r),
       ShrLimb(a, 7, q, p, r), ShrLimb(a, 8, q, p, r) >>

\* a >> k
BigShr(a, k) == ShrBy(a, k \div 15, Pow2(k % 15), Pow2(15 - (k % 15)))

\* bit k of a
BigBit(a, k) == (Limb(a, (k \div 15) + 1) \div Pow2(k % 15)) % 2

\* a mod 2^k # 0
BigLowNonzero(a, k) ==
    \/ \E i \in 1..(k \div 15) : Limb(a, i) # 0
    \/ Limb(a, (k \div 15) + 1) % Pow2(k % 15) # 0

\* limb i of a + 1
IncLimb(a, i) ==
    IF \A j \in 1..(i - 1) : a[j] = LimbBase - 1 THEN (a[i] + 1) % LimbBase ELSE a[i]

\* a + 1
BigInc(a) ==
    << IncLimb(a, 1), IncLimb(a, 2), IncLimb(a, 3), IncLimb(a, 4),
       IncLimb(a, 5), IncLimb(a, 6), IncLimb(a, 7), IncLimb(a, 8) >>

\* a * c for 0 <= c < 2^15: limb by limb, the carry bound before the next limb
RECURSIVE BigMulFrom(_, _, _, _)
BigMulFrom(a, c, i, carry) ==
    IF i > 8 THEN <<>>
    ELSE CHOOSE r \in {<<t % LimbBase>> \o BigMulFrom(a, c, i + 1, t \div LimbBase) :
                        t \in {a[i] * c + carry}} : TRUE

BigMulSmall(a, c) == BigMulFrom(a, c, 1, 0)

\* the low 30 bits' worth of a as an integer (a < 2^30)
BigToInt(a) == a[1] + LimbBase * a[2]

\* the rounded mantissa mr, one bit longer than 53 after a carry out, made 53
\* bits again
Renorm(mr, sh) ==
    IF BitLen(mr) = 54 THEN [m |-> BigShr(mr, 1), sh |-> sh + 1] ELSE [m |-> mr, sh |-> sh]

\* round to nearest, ties to even: m is a >> sh, half the first bit dropped,
\* below whether a nonzero bit follows it
RoundUp(m, sh, half, below) ==
    Renorm(IF half /\ (below \/ m[1] % 2 = 1) THEN BigInc(m) ELSE m, sh)

RoundAt(a, sticky, sh) ==
    IF sh <= 0 THEN [m |-> a, sh |-> 0]
    ELSE RoundUp(BigShr(a, sh), sh, BigBit(a, sh - 1) = 1, BigLowNonzero(a, sh - 1) \/ sticky)

\* a cut to its 53 leading bits, rounded to nearest, ties to even: [m, sh] with
\* a ~ m * 2^sh; sticky tells that nonzero bits below a were already dropped
RoundTo53(a, sticky) == RoundAt(a, sticky, BitLen(a) - 53)

\* the double m * 2^e of a rounded [m, sh] scaled by 2^e
Scaled(r, e) == [m |-> r.m, e |-> r.sh + e]

\* the remainder and the next base-2^15 digit of the fraction r / D
FracRem(r, D) == (r * LimbBase) % D
FracDigit(r, D) == (r * LimbBase) \div D

\* float of the numeral N / D (N > 0): the value m * 2^e, from N / D * 2^75
\* truncated (its integer part and five fraction digits) and what is left
DoubleOfRatio(N, D) ==
    Scaled(RoundTo53(
             << FracDigit(FracRem(FracRem(FracRem(FracRem(N % D, D), D), D), D), D),
                FracDigit(FracRem(FracRem(FracRem(N % D, D), D), D), D),
                FracDigit(FracRem(FracRem(N % D, D), D), D),
                FracDigit(FracRem(N % D, D), D),
                FracDigit(N % D, D),
                (N \div D) % LimbBase, (N \div D) \div LimbBase, 0 >>,
             FracRem(FracRem(FracRem(FracRem(FracRem(N % D, D), D), D), D), D) # 0),
           0 - 75)

\* x * c of a double x and the small integer c > 0, as a double
DoubleTimes(x, c) == Scaled(RoundTo53(BigMulSmall(x.m, c), FALSE), x.e)

\* int(x) of a positive double below 2^30: the integer part
DoubleTrunc(x) == BigToInt(BigShr(x.m, 0 - x.e))

(***************************************************************************)
(* float(text).  A float is [kind, neg, m, e]: kind "num" is the double    *)
(* (-1)^neg * m * 2^e, kind "zero", "inf", "nan" the special values, and   *)
(* kind "error" stands for the ValueError float() raises.                  *)
(***************************************************************************)
NoLimbs == <<0, 0, 0, 0, 0, 0, 0, 0>>

Float(kind, neg, m, e) == [kind |-> kind, neg |-> neg, m |-> m, e |-> e]
FloatZero == Float("zero", FALSE, NoLimbs, 0)
FloatError == Float("error", FALSE, NoLimbs, 0)

Pow10Tab == <<1, 10, 100, 1000, 10000, 100000, 1000000, 10000000, 100000000>>
Pow10(k) == Pow10Tab[k + 1]

AllDigits(s) == \A i \in 1..Len(s) : IsDigit(s[i])

\* the value of the first n of the decimal digits ds
RECURSIVE DigitsValue(_, _)
DigitsValue(ds, n) == IF n = 0 THEN 0 ELSE 10 * DigitsValue(ds, n - 1) + (ds[n] - 48)

\* text without its sign
Unsigned(t) == IF t # <<>> /\ t[1] \in {43, 45} THEN Tail(t) ELSE t

INF == <<105, 110, 102>>                          \* "inf"
INFINITY == <<105, 110, 102, 105, 110, 105, 116, 121>>   \* "infinity"
NAN == <<110, 97, 110>>                           \* "nan"

\* the numeral with mantissa digits ip.fp and exponent digits expo (hasExp:
\* an 'e' is there; expNeg: its sign is '-'), as [ok, N, x]: the value N * 10^x
NumeralOf(ip, fp, dots, hasExp, expNeg, expo) ==
    IF /\ dots <= 1
       /\ AllDigits(ip \o fp) /\ ip \o fp # <<>>
       /\ (hasExp => AllDigits(expo) /\ expo # <<>>)
    THEN [ok |-> TRUE,
          N |-> DigitsValue(ip \o fp, Len(ip) + Len(fp)),
          x |-> (IF ~hasExp THEN 0
                 ELSE IF expNeg THEN 0 - DigitsValue(expo, Len(expo))
                 ELSE DigitsValue(expo, Len(expo))) - Len(fp)]
    ELSE [ok |-> FALSE, N |-> 0, x |-> 0]

\* the mantissa split at its first '.', at dPos
NumeralSplit(mant, dots, dPos, hasExp, expNeg, expo) ==
    NumeralOf(SubSeq(mant, 1, dPos - 1), SubSeq(mant, dPos + 1, Len(mant)),
              Cardinality(dots), hasExp, expNeg, expo)

DotsAt(s) == {i \in 1..Len(s) : s[i] = 46}
ExpAt(s) == {i \in 1..Len(s) : s[i] \in {69, 101}}

NumeralParts(mant, dots, hasExp, expNeg, expo) ==
    NumeralSplit(mant, dots, IF dots = {} THEN Len(mant) + 1 ELSE MinOf(dots),
                 hasExp, expNeg, expo)

\* u cut at its first 'e' or 'E', at ePos (past the end when there is none)
NumeralCut(u, ePos) ==
    NumeralParts(SubSeq(u, 1, ePos - 1), DotsAt(SubSeq(u, 1, ePos - 1)),
                 ePos <= Len(u), ePos < Len(u) /\ u[ePos + 1] = 45,
                 Unsigned(SubSeq(u, ePos + 1, Len(u))))

\* the decimal numeral u = digits [. digits] [e [sign] digits] as [ok, N, x]
Numeral(u) == NumeralCut(u, IF ExpAt(u) = {} THEN Len(u) + 1 ELSE MinOf(ExpAt(u)))

MakeFloat(neg, d) == Float("num", neg, d.m, d.e)

\* the float of the numeral n = [ok, N, x] with the sign neg
FloatOfNumeral(neg, n) ==
    IF ~n.ok THEN FloatError
    ELSE IF n.N = 0 THEN Float("zero", neg, NoLimbs, 0)
    ELSE IF n.x > 308 THEN Float("inf", neg, NoLimbs, 0)
    ELSE MakeFloat(neg, DoubleOfRatio(IF n.x >= 0 THEN n.N * Pow10(n.x) ELSE n.N,
                                      IF n.x >= 0 THEN 1 ELSE Pow10(0 - n.x)))

\* the float of the text u that follows the sign
FloatOfUnsigned(neg, u) ==
    IF Lower(u) \in {INF, INFINITY} THEN Float("inf", neg, NoLimbs, 0)
    ELSE IF Lower(u) = NAN THEN Float("nan", neg, NoLimbs, 0)
    ELSE FloatOfNumeral(neg, Numeral(u))

FloatOfStripped(t) == FloatOfUnsigned(t # <<>> /\ t[1] = 45, Unsigned(t))

\* float(val) for a str val
ParseFloat(val) == FloatOfStripped(Strip(val))

(***************************************************************************)
(* Field coercion (lines 82-95).  A coerced value is [exc, v] or [exc, f]: *)
(* the exception that leaves the function, or "none" and the value.        *)
(***************************************************************************)
IntOk(v) == [exc |-> NoExc, v |-> v]
IntRaise(e) == [exc |-> e, v |-> 0]

\* the floor of the negative number, not its integer part
NegatedFloor(neg, t) == IF neg /\ t # 0 THEN 0 - t - 1 ELSE t

Negated(neg, t) == IF neg THEN 0 - t ELSE t

\* int(f) of a float: truncation toward zero
IntOfFloat(f) ==
    IF f.kind = "nan" THEN IntRaise("ValueError")
    ELSE IF f.kind = "inf" THEN IntRaise("OverflowError")
    ELSE IF f.kind = "zero" THEN IntOk(0)
    ELSE IntOk(Negated(f.neg, DoubleTrunc(f)))

\* f * c of a float and the int c > 0
FloatTimes(f, c) == IF f.kind = "num" THEN MakeFloat(f.neg, DoubleTimes(f, c)) ELSE f

\* what the except clause of the parser makes of float(val): the default 0.0
\* for a ValueError
OrDefault(f) == IF f.kind = "error" THEN FloatZero ELSE f

\* safe_float(val) with its default 0.0: [exc, f]
safe_float(val) ==
    IF val = None THEN [exc |-> "AttributeError", f |-> FloatZero]
    ELSE IF Strip(val) = <<>> THEN [exc |-> NoExc, f |-> FloatZero]
    ELSE [exc |-> NoExc, f |-> OrDefault(ParseFloat(val))]

\* what the except clause of safe_int makes of int(float(val)): the default 0
\* for a ValueError of float() or of int()
IntOrDefault(i) == IF i.exc = "ValueError" THEN IntOk(0) ELSE i

IntOfParsed(f) == IF f.kind = "error" THEN IntRaise("ValueError") ELSE IntOfFloat(f)

\* safe_int(val) with its default 0: [exc, v]
safe_int(val) ==
    IF val = None THEN IntRaise("AttributeError")
    ELSE IF Strip(val) = <<>> THEN IntOk(0)
    ELSE IntOrDefault(IntOfParsed(ParseFloat(val)))

\* int(r.f * c) of a safe_float result r
ScaledOf(r, c) == IF r.exc # NoExc THEN IntRaise(r.exc) ELSE IntOfFloat(FloatTimes(r.f, c))

\* int(safe_float(val) * c): [exc, v]
ScaledInt(val, c) == ScaledOf(safe_float(val), c)

\* row.get(key, default) of a csv.DictReader row
Get(row, key, default) == IF key \in DOMAIN row THEN row[key] ELSE default

(***************************************************************************)
(* The lookup tables (lines 58-79): sets of <<key, code>>.                 *)
(***************************************************************************)
CATEGORY_MAP ==
    {
      <<<<65, 103, 114, 105, 99, 117, 108, 116, 117, 114, 101>>, 0>>,   \* 'Agriculture'
      <<<<86, 101, 103, 101, 116, 97, 98, 108, 101, 115>>, 1>>,   \* 'Vegetables'
      <<<<70, 114, 117, 105, 116, 115>>, 2>>,   \* 'Fruits'
      <<<<72, 101, 114, 98, 115>>, 3>>,   \* 'Herbs'
      <<<<79, 114, 110, 97, 109, 101, 110, 116, 97, 108>>, 4>>,   \* 'Ornamental'
      <<<<84, 114, 101, 101, 115>>, 5>>,   \* 'Trees'
      <<<<72, 111, 117, 115, 101, 112, 108, 97, 110, 116, 115>>, 6>>,   \* 'Houseplants'
      <<<<76, 97, 119, 110, 115>>, 7>>    \* 'Lawns'
    }

TOLERANCE_MAP ==
    {
      <<<<>>, 1>>,   \* ''
      <<<<76, 79, 87>>, 0>>,   \* 'LOW'
      <<<<77, 69, 68>>, 1>>,   \* 'MED'
      <<<<77, 69, 68, 73, 85, 77>>, 1>>,   \* 'MEDIUM'
      <<<<72, 73, 71, 72>>, 2>>,   \* 'HIGH'
      <<<<86, 72, 73, 71, 72>>, 3>>    \* 'VHIGH'
    }

IRRIGATION_METHOD_MAP ==
    {
      <<<<68, 82, 73, 80>>, 0>>,   \* 'DRIP'
      <<<<68, 82, 73, 80, 95, 80, 67>>, 1>>,   \* 'DRIP_PC'
      <<<<83, 80, 82, 73, 78, 75, 76, 69, 82>>, 2>>,   \* 'SPRINKLER'
      <<<<83, 85, 82, 70, 65, 67, 69>>, 3>>,   \* 'SURFACE'
      <<<<70, 76, 79, 79, 68>>, 4>>,   \* 'FLOOD'
      <<<<77, 73, 67, 82, 79, 95, 83, 80, 82, 65, 89>>, 5>>,   \* 'MICRO_SPRAY'
      <<<<83, 85, 66, 83, 85, 82, 70, 65, 67, 69>>, 6>>,   \* 'SUBSURFACE'
      <<<<77, 65, 78, 85, 65, 76>>, 7>>    \* 'MANUAL'
    }

\* the lookup without its default: -1 stands for the None that it yields
MapGetNoDefault(map, key, default) ==
    IF \E e \in map : e[1] = key THEN (CHOOSE e \in map : e[1] = key)[2] ELSE 0 - 1

\* dict.get(key, default)
MapGet(map, key, default) ==
    IF \E e \in map : e[1] = key THEN (CHOOSE e \in map : e[1] = key)[2] ELSE default

\* the exception of calling a str method on the cell, or of slicing it
MethodExc(val) == IF val = None THEN "AttributeError" ELSE NoExc
SliceExc(val) == IF val = None THEN "TypeError" ELSE NoExc

\* the first exception raised by statements executed in order
RECURSIVE FirstExc(_, _)
FirstExc(excs, i) ==
    IF i > Len(excs) THEN NoExc
    ELSE IF excs[i] # NoExc THEN excs[i]
    ELSE FirstExc(excs, i + 1)

\* the value cut to its low byte
Wrap8(v) == v % 256

\* min(255, max(0, v)) and min(65535, max(0, v))
Clamp8(v) == Min(255, Max(0, v))
Clamp16(v) == Min(65535, Max(0, v))

\* string literals of the source
STR_0_3 == <<48, 46, 51>>   \* '0.3'
STR_1_0 == <<49, 46, 48>>   \* '1.0'
STR_0_5 == <<48, 46, 53>>   \* '0.5'
STR_20 == <<50, 48>>   \* '20'
STR_30 == <<51, 48>>   \* '30'
STR_40 == <<52, 48>>   \* '40'
STR_DRIP == <<68, 82, 73, 80>>   \* 'DRIP'
STR_YES == <<121, 101, 115>>   \* 'yes'
STR_TRUE == <<116, 114, 117, 101>>   \* 'true'
STR_1 == <<49>>   \* '1'
STR_0 == <<48>>   \* '0'
STR_15 == <<49, 53>>   \* '15'
STR_150 == <<49, 53, 48>>   \* '150'
STR_10 == <<49, 48>>   \* '10'
STR_80 == <<56, 48>>   \* '80'
STR_85 == <<56, 53>>   \* '85'

(***************************************************************************)
(* The record encoders: the body of each "for row in reader" loop up to    *)
(* struct.pack, as [exc, bytes].                                           *)
(***************************************************************************)
\* the cell is one of the three literals as they are written
TruthyAsWritten(val) == val \in {STR_YES, STR_TRUE, STR_1}

Truthy(val) == Lower(val) \in {STR_YES, STR_TRUE, STR_1}

\* flags: bit0=indoor, bit1=toxic, bit2=edible (lines 138-145)
PlantFlags(row) ==
    (IF Truthy(Get(row, "indoor_ok", <<>>)) THEN 1 ELSE 0)
  + (IF Truthy(Get(row, "toxic_flag", <<>>)) THEN 2 ELSE 0)
  + (IF Strip(Get(row, "edible_part", <<>>)) # <<>> THEN 4 ELSE 0)

\* the Romanian name also when the English one is empty
PlantNameOr(row) ==
    IF Get(row, "common_name_en", <<>>) = <<>> THEN Get(row, "common_name_ro", <<>>)
    ELSE Get(row, "common_name_en", <<>>)

\* the name of a plant row before the cut (line 154)
PlantName(row) == Get(row, "common_name_en", Get(row, "common_name_ro", <<>>))

\* the plant record with a reserved field of 7 bytes
PackPlantShort(plant_id, category, name, p, flags, drought_tol, irrig_method) ==
    PackAll(<< PackH(plant_id), PackB(category), PackB(0),
               PackS(encode_string(name, 24), 24),
               PackB(p[1]), PackB(p[2]), PackB(p[3]), PackB(p[4]), PackB(p[5]),
               PackB(p[6]), PackB(p[7]), PackB(p[8]), PackB(p[9]),
               PackB(flags), PackB(drought_tol), PackB(irrig_method),
               PackS(encode_string(<<>>, 7), 7) >>, 1)

\* struct.pack(PLANT_RECORD_FORMAT, ...): '<HBB24sBBBBBBBBBBBB8s'
PackPlant(plant_id, category, name, p, flags, drought_tol, irrig_method) ==
    PackAll(<< PackH(plant_id), PackB(category), PackB(0),
               PackS(encode_string(name, 24), 24),
               PackB(p[1]), PackB(p[2]), PackB(p[3]), PackB(p[4]), PackB(p[5]),
               PackB(p[6]), PackB(p[7]), PackB(p[8]), PackB(p[9]),
               PackB(flags), PackB(drought_tol), PackB(irrig_method),
               PackS(encode_string(<<>>, 8), 8) >>, 1)

\* the statements of a plant row after the cells are read and coerced: the
\* first exception raised, else the packed record; n is the nine coerced
\* numbers, in the order of the record
PlantRecord(row, plant_id, n, tol, irrig_str) ==
    IF FirstExc(<< n[1].exc, n[2].exc, n[3].exc, n[4].exc, n[5].exc, n[6].exc,
                   n[7].exc, n[8].exc, n[9].exc,
                   MethodExc(Get(row, "indoor_ok", <<>>)),
                   MethodExc(Get(row, "toxic_flag", <<>>)),
                   MethodExc(Get(row, "edible_part", <<>>)),
                   MethodExc(tol), MethodExc(irrig_str),
                   SliceExc(PlantName(row)) >>, 1) # NoExc
    THEN Raise(FirstExc(<< n[1].exc, n[2].exc, n[3].exc, n[4].exc, n[5].exc, n[6].exc,
                           n[7].exc, n[8].exc, n[9].exc,
                           MethodExc(Get(row, "indoor_ok", <<>>)),
                           MethodExc(Get(row, "toxic_flag", <<>>)),
                           MethodExc(Get(row, "edible_part", <<>>)),
                           MethodExc(tol), MethodExc(irrig_str),
                           SliceExc(PlantName(row)) >>, 1))
    ELSE PackPlant(plant_id,
                   MapGet(CATEGORY_MAP, Get(row, "category", <<>>), 0),
                   Take(PlantName(row), 23),
                   << Clamp8(n[1].v), Clamp8(n[2].v), Clamp8(n[3].v), Clamp8(n[4].v),
                      Clamp8(n[5].v), Clamp8(n[6].v), Clamp8(n[7].v), Clamp8(n[8].v),
                      Clamp8(n[9].v) >>,
                   PlantFlags(row),
                   MapGet(TOLERANCE_MAP, Upper(tol), 1),
                   MapGet(IRRIGATION_METHOD_MAP, Upper(irrig_str), 0))

\* one row of convert_plants (lines 123-185)
EncodePlant(row, plant_id) ==
    PlantRecord(row, plant_id,
                << ScaledInt(Get(row, "kc_ini", STR_0_3), 100),
                   ScaledInt(Get(row, "kc_mid", STR_1_0), 100),
                   ScaledInt(Get(row, "kc_end", STR_0_5), 100),
                   ScaledInt(Get(row, "root_depth_max_m", STR_0_5), 10),
                   ScaledInt(Get(row, "depletion_fraction_p", STR_0_5), 100),
                   safe_int(Get(row, "stage_days_ini", STR_20)),
                   safe_int(Get(row, "stage_days_dev", STR_30)),
                   safe_int(Get(row, "stage_days_mid", STR_40)),
                   safe_int(Get(row, "stage_days_end", STR_20)) >>,
                Get(row, "drought_tolerance", <<>>),
                Get(row, "typ_irrig_method", STR_DRIP))

\* the soil record with fc and pwp in each other's place
PackSoilSwapped(soil_id, soil_type, fc, pwp, awc, infil, p_raw) ==
    PackAll(<< PackB(soil_id), PackS(encode_string(soil_type, 15), 15),
               PackB(pwp), PackB(fc), PackH(awc), PackB(infil), PackB(p_raw),
               PackS(encode_string(<<>>, 2), 2) >>, 1)

\* struct.pack(SOIL_RECORD_FORMAT, ...): '<B15sBBHBB2s'
PackSoil(soil_id, soil_type, fc, pwp, awc, infil, p_raw) ==
    PackAll(<< PackB(soil_id), PackS(encode_string(soil_type, 15), 15),
               PackB(fc), PackB(pwp), PackH(awc), PackB(infil), PackB(p_raw),
               PackS(encode_string(<<>>, 2), 2) >>, 1)

\* the statements of a soil row after the cells are read and coerced: the
\* first exception raised, else the packed record
SoilRecord(soil_id, soil_type, fc, pwp, awc, infil, p_raw) ==
    IF FirstExc(<< soil_id.exc, SliceExc(soil_type), fc.exc, pwp.exc, awc.exc,
                   infil.exc, p_raw.exc >>, 1) # NoExc
    THEN Raise(FirstExc(<< soil_id.exc, SliceExc(soil_type), fc.exc, pwp.exc, awc.exc,
                           infil.exc, p_raw.exc >>, 1))
    ELSE PackSoil(soil_id.v, Take(soil_type, 14), Clamp8(fc.v), Clamp8(pwp.v),
                  Clamp16(awc.v), Clamp8(infil.v), Clamp8(p_raw.v))

\* one row of convert_soils (lines 203-227)
EncodeSoil(row) ==
    SoilRecord(safe_int(Get(row, "soil_id", STR_0)),
               Get(row, "soil_type", <<>>),
               safe_int(Get(row, "fc_pctvol", STR_30)),
               safe_int(Get(row, "pwp_pctvol", STR_15)),
               safe_int(Get(row, "awc_mm_per_m", STR_150)),
               safe_int(Get(row, "infil_mm_h", STR_10)),
               ScaledInt(Get(row, "p_raw", STR_0_5), 100))

\* the sum of the two coerced ends, not halved
RangeOfSum(a, b) ==
    IF a.exc # NoExc THEN a
    ELSE IF b.exc # NoExc THEN b
    ELSE IntOk(a.v + b.v)

\* (a + b) // 2 of the two coerced ends of a range
RangeOf(a, b) ==
    IF a.exc # NoExc THEN a
    ELSE IF b.exc # NoExc THEN b
    ELSE IntOk((a.v + b.v) \div 2)

\* a depth or rate cell: the average of the two ends of "a-b", else the
\* integer (lines 250-263)
RangeValue(cell) ==
    IF cell = None THEN IntRaise("TypeError")
    ELSE IF Contains(cell, 45)
         THEN RangeOf(safe_int(SplitPart0(cell)), safe_int(SplitPart1(cell)))
         ELSE safe_int(cell)

\* struct.pack(IRRIGATION_RECORD_FORMAT, ...): '<B15sBBBBB3s'
PackIrrigation(method_id, name, efficiency, wetting, depth, rate, du) ==
    PackAll(<< PackB(method_id), PackS(encode_string(name, 15), 15),
               PackB(efficiency), PackB(wetting), PackB(depth), PackB(rate), PackB(du),
               PackS(encode_string(<<>>, 3), 3) >>, 1)

\* the statements of an irrigation row after the cells are read and coerced:
\* the first exception raised, else the packed record
IrrigationRecord(method_id, name, efficiency, wetting, depth, rate, du) ==
    IF FirstExc(<< method_id.exc, SliceExc(name), efficiency.exc, wetting.exc,
                   depth.exc, rate.exc, du.exc >>, 1) # NoExc
    THEN Raise(FirstExc(<< method_id.exc, SliceExc(name), efficiency.exc, wetting.exc,
                           depth.exc, rate.exc, du.exc >>, 1))
    ELSE PackIrrigation(method_id.v, Take(name, 14), Clamp8(efficiency.v),
                        Clamp8(wetting.v), Clamp8(depth.v), Clamp8(rate.v), Clamp8(du.v))

\* one row of convert_irrigation (lines 244-283)
EncodeIrrigation(row) ==
    IrrigationRecord(safe_int(Get(row, "method_id", STR_0)),
                     Get(row, "method_name", <<>>),
                     safe_int(Get(row, "efficiency_pct", STR_80)),
                     ScaledInt(Get(row, "wetting_fraction", STR_0_5), 100),
                     RangeValue(Get(row, "depth_typical_mm", STR_30)),
                     RangeValue(Get(row, "application_rate_mm_h", STR_10)),
                     safe_int(Get(row, "distribution_uniformity_pct", STR_85)))

\* the header with record_size packed before crc32
pack_header_Misordered(magic, count, crc32, record_size) ==
    PackAll(<< PackI(ToU32(magic)), PackH(DB_VERSION_CURRENT), PackH(count),
               PackH(record_size), PackI(crc32), PackH(0) >>, 1)

\* pack_header (lines 109-111): '<IHHIHH'
pack_header(magic, count, crc32, record_size) ==
    PackAll(<< PackI(ToU32(magic)), PackH(DB_VERSION_CURRENT), PackH(count),
               PackI(crc32), PackH(record_size), PackH(0) >>, 1)

(***************************************************************************)
(* main() and the functions it calls as a state machine.  The three        *)
(* schemas are processed in the order of main: plants, soils, irrigation.  *)
(***************************************************************************)
Schemas == <<"plants", "soils", "irrigation">>

Magic(s) ==
    CASE s = "plants" -> DB_MAGIC_PLANT
      [] s = "soils" -> DB_MAGIC_SOIL
      [] s = "irrigation" -> DB_MAGIC_IRRIGATION

RecordSize(s) ==
    CASE s = "plants" -> PLANT_RECORD_SIZE
      [] s = "soils" -> SOIL_RECORD_SIZE
      [] s = "irrigation" -> IRRIGATION_RECORD_SIZE

\* the body of the row loop of convert_<s> up to struct.pack
Encode(s, row, id) ==
    CASE s = "plants" -> EncodePlant(row, id)
      [] s = "soils" -> EncodeSoil(row)
      [] s = "irrigation" -> EncodeIrrigation(row)

\* b''.join(records)
RECURSIVE Join(_, _)
Join(recs, n) == IF n = 0 THEN <<>> ELSE Join(recs, n - 1) \o recs[n]

\* the record put in front of the list
PrependRecord(recs, rec) == <<rec>> \o recs

\* records.append(record)
AppendRecord(recs, rec) == Append(recs, rec)

\* plant_id += 1
NextPlantId(id) == id + 1

\* the file opened for appending: what it held stays
Reopened(file) == [exists |-> TRUE, bytes |-> file.bytes]

\* the handle stays open
LeftOpen(open, h) == open

\* the end of a with-block: the file h is closed
Closed(open, h) == open \ {h}

\* open(output_path, 'wb'): the file exists and is empty
Truncated(file) == [exists |-> TRUE, bytes |-> <<>>]

\* f.write(b) on the file
Written(file, b) == [exists |-> TRUE, bytes |-> file.bytes \o b]

VARIABLES
    csv,        \* the input directory: schema -> [exists, rows]
    disk,       \* the output directory: schema -> [exists, bytes]
    pc,         \* where main is
    cur,        \* index in Schemas of the schema main is at
    rowIdx,     \* rows the csv reader has handed out
    plant_id,   \* convert_plants' counter
    records,    \* the records list of the running convert_<s>
    record,     \* the record packed last
    data,       \* (data, count) returned by convert_<s>
    count,
    crc,        \* write_binary_db's locals
    header,
    handles,    \* files that are open
    out,        \* the lines printed
    exc,        \* the exception that ended main, or "none"
    run,        \* the number of the run of the converter: 1, 2, ...
    disk0,      \* the output directory as it was when this run started
    es,         \* a call of encode_string on its own: arguments and result
    gen,        \* the plant generator (csv2plant_full.py) at one row
    si,         \* a call of safe_int on its own: argument and result
    big         \* a conversion of a CSV of about 65536 rows, its rows counted

\* the state of the converter
convVars == <<csv, disk, pc, cur, rowIdx, plant_id, records, record, data, count, crc,
              header, handles, out, exc, run, disk0>>

vars == <<convVars, es, gen, si, big>>

\* encode_string is not being called on its own; the generator is not running
EsIdle == [pc |-> "idle"]
GenIdle == [pc |-> "idle"]

\* safe_int is not being called on its own; no long CSV is being converted
SiIdle == [pc |-> "idle"]
LongIdle == [pc |-> "idle"]

Sch == Schemas[cur]

NoU32 == [hi |-> 0, lo |-> 0]

\* main leaves the schema at cur: on to the next one, or to the closing lines
Advance == IF cur < Len(Schemas) THEN cur' = cur + 1 /\ pc' = "check"
           ELSE cur' = cur /\ pc' = "summary"

\* the exception is caught and main goes on to its closing lines
AbortSwallowed(e) == /\ pc' = "summary"
                     /\ exc' = e
                     /\ handles' = {}

\* an exception leaves main: every with-block on the way closes its file
Abort(e) == /\ pc' = "failed"
            /\ exc' = e
            /\ handles' = {}

\* lines 327-329, 336-338, 345-347: the CSV exists; convert_<s> opens it
BeginConvert ==
    /\ pc = "check"
    /\ csv[Sch].exists
    /\ pc' = "rows"
    /\ rowIdx' = 0
    /\ plant_id' = 0
    /\ records' = <<>>
    /\ handles' = handles \cup {<<"csv", Sch>>}
    /\ out' = Append(out, [line |-> "Converting", schema |-> Sch])
    /\ UNCHANGED <<csv, disk, cur, record, data, count, crc, header, exc>>
    /\ UNCHANGED <<run, disk0, es, gen, si, big>>

\* lines 331-332, 340-341, 349-350: the CSV is missing
SkipMissing ==
    /\ pc = "check"
    /\ ~csv[Sch].exists
    /\ out' = Append(out, [line |-> "WARNING", schema |-> Sch])
    /\ Advance
    /\ UNCHANGED <<csv, disk, rowIdx, plant_id, records, record, data, count, crc,
                   header, handles, exc>>
    /\ UNCHANGED <<run, disk0, es, gen, si, big>>

\* the outcome r of the loop body up to struct.pack: the record, or the
\* exception that leaves convert_<s>
Packed(r) ==
    IF r.exc = NoExc
    THEN /\ record' = r.bytes
         /\ pc' = "assert"
         /\ UNCHANGED <<handles, exc>>
    ELSE /\ Abort(r.exc)
         /\ UNCHANGED record

\* one row through the loop body up to and including struct.pack
PackRow ==
    /\ pc = "rows"
    /\ rowIdx < Len(csv[Sch].rows)
    /\ Packed(Encode(Sch, csv[Sch].rows[rowIdx + 1], plant_id))
    /\ UNCHANGED <<csv, disk, cur, rowIdx, plant_id, records, data, count, crc, header, out>>
    /\ UNCHANGED <<run, disk0, es, gen, si, big>>

\* the assert on the record's length, then records.append and plant_id += 1
AssertAppend ==
    /\ pc = "assert"
    /\ IF Len(record) = RecordSize(Sch)
       THEN /\ records' = AppendRecord(records, record)
            /\ plant_id' = IF Sch = "plants" THEN NextPlantId(plant_id) ELSE plant_id
            /\ rowIdx' = rowIdx + 1
            /\ pc' = "rows"
            /\ UNCHANGED <<handles, exc>>
       ELSE /\ Abort("AssertionError")
            /\ UNCHANGED <<records, plant_id, rowIdx>>
    /\ UNCHANGED <<csv, disk, cur, record, data, count, crc, header, out>>
    /\ UNCHANGED <<run, disk0, es, gen, si, big>>

\* the reader is exhausted: the CSV is closed, convert_<s> returns
\* (b''.join(records), len(records))
ReturnData ==
    /\ pc = "rows"
    /\ rowIdx = Len(csv[Sch].rows)
    /\ data' = Join(records, Len(records))
    /\ count' = Len(records)
    /\ handles' = Closed(handles, <<"csv", Sch>>)
    /\ pc' = "header"
    /\ UNCHANGED <<csv, disk, cur, rowIdx, plant_id, records, record, crc, header, out, exc>>
    /\ UNCHANGED <<run, disk0, es, gen, si, big>>

\* the header h packed around the checksum c
HeaderPacked(c, h) ==
    IF h.exc = NoExc
    THEN /\ crc' = c
         /\ header' = h.bytes
         /\ pc' = "open"
         /\ UNCHANGED <<handles, exc>>
    ELSE /\ Abort(h.exc)
         /\ UNCHANGED <<crc, header>>

\* pack_header(magic, count, c, record_size) in write_binary_db
HeaderOf(c) == HeaderPacked(c, pack_header(Magic(Sch), count, c, RecordSize(Sch)))

\* write_binary_db, lines 294-295
PackHeader ==
    /\ pc = "header"
    /\ HeaderOf(calc_crc32(data))
    /\ UNCHANGED <<csv, disk, cur, rowIdx, plant_id, records, record, data, count, out>>
    /\ UNCHANGED <<run, disk0, es, gen, si, big>>

\* line 297: open(output_path, 'wb')
OpenOutput ==
    /\ pc = "open"
    /\ disk' = [disk EXCEPT ![Sch] = Truncated(@)]
    /\ handles' = handles \cup {<<"bin", Sch>>}
    /\ pc' = "write_header"
    /\ UNCHANGED <<csv, cur, rowIdx, plant_id, records, record, data, count, crc, header,
                   out, exc>>
    /\ UNCHANGED <<run, disk0, es, gen, si, big>>

\* line 298: f.write(header)
WriteHeader ==
    /\ pc = "write_header"
    /\ disk' = [disk EXCEPT ![Sch] = Written(@, header)]
    /\ pc' = "write_data"
    /\ UNCHANGED <<csv, cur, rowIdx, plant_id, records, record, data, count, crc, header,
                   handles, out, exc>>
    /\ UNCHANGED <<run, disk0, es, gen, si, big>>

\* line 299: f.write(data)
WriteData ==
    /\ pc = "write_data"
    /\ disk' = [disk EXCEPT ![Sch] = Written(@, data)]
    /\ pc' = "report"
    /\ UNCHANGED <<csv, cur, rowIdx, plant_id, records, record, data, count, crc, header,
                   handles, out, exc>>
    /\ UNCHANGED <<run, disk0, es, gen, si, big>>

\* the payload alone
TotalSizeOfData(h, d) == Len(d)

\* line 301: total_size = len(header) + len(data)
TotalSize(h, d) == Len(h) + Len(d)

\* the with-block ends (the file is closed), lines 301-302 print the summary
\* and write_binary_db returns
Report ==
    /\ pc = "report"
    /\ handles' = Closed(handles, <<"bin", Sch>>)
    /\ out' = Append(out, [line |-> "Created", schema |-> Sch, count |-> count,
                           size |-> TotalSize(header, data), crc |-> crc])
    /\ Advance
    /\ UNCHANGED <<csv, disk, rowIdx, plant_id, records, record, data, count, crc, header, exc>>
    /\ UNCHANGED <<run, disk0, es, gen, si, big>>

\* open or a write fails (OSError): the with-block closes the file and the
\* exception leaves write_binary_db and main
WriteFails ==
    /\ pc \in {"open", "write_header", "write_data"}
    /\ Abort("OSError")
    /\ UNCHANGED <<csv, disk, cur, rowIdx, plant_id, records, record, data, count, crc,
                   header, out>>
    /\ UNCHANGED <<run, disk0, es, gen, si, big>>

\* lines 352-356: the closing lines of main
Summary ==
    /\ pc = "summary"
    /\ out' = Append(out, [line |-> "Binary databases created in"])
    /\ pc' = "done"
    /\ UNCHANGED <<csv, disk, cur, rowIdx, plant_id, records, record, data, count, crc,
                   header, handles, exc>>
    /\ UNCHANGED <<run, disk0, es, gen, si, big>>

\* the converter, having finished, is started again on the same directories
\* (lines 359-360): main begins anew with what the run before left on disk
Rerun ==
    /\ pc = "done"
    /\ run < MaxRuns
    /\ run' = run + 1
    /\ disk0' = disk
    /\ pc' = "check"
    /\ cur' = 1
    /\ rowIdx' = 0
    /\ plant_id' = 0
    /\ records' = <<>>
    /\ record' = <<>>
    /\ data' = <<>>
    /\ count' = 0
    /\ crc' = NoU32
    /\ header' = <<>>
    /\ handles' = {}
    /\ out' = <<>>
    /\ exc' = NoExc
    /\ UNCHANGED <<csv, disk, es, gen, si, big>>

Next ==
    \/ BeginConvert
    \/ SkipMissing
    \/ PackRow
    \/ AssertAppend
    \/ ReturnData
    \/ PackHeader
    \/ OpenOutput
    \/ WriteHeader
    \/ WriteData
    \/ Report
    \/ WriteFails
    \/ Summary
    \/ Rerun

(***************************************************************************)
(* The inputs: cells, rows and CSV files.  A row is what csv.DictReader    *)
(* yields: a record with one field per column of the header line; a cell   *)
(* is a str, or None when the row is shorter than the header.              *)
(***************************************************************************)
C_Blank == <<>>   \* ''
C_Space == <<32>>   \* ' '
C_7 == <<55>>   \* '7'
C_300 == <<51, 48, 48>>   \* '300'
C_500 == <<53, 48, 48>>   \* '500'
C_70000 == <<55, 48, 48, 48, 48>>   \* '70000'
C_Minus1 == <<45, 49>>   \* '-1'
C_Minus5 == <<45, 53>>   \* '-5'
C_0_29 == <<48, 46, 50, 57>>   \* '0.29'
C_2_5 == <<50, 46, 53>>   \* '2.5'
C_12_9 == <<49, 50, 46, 57>>   \* '12.9'
C_abc == <<97, 98, 99>>   \* 'abc'
C_nan == <<110, 97, 110>>   \* 'nan'
C_inf == <<105, 110, 102>>   \* 'inf'
C_40_80 == <<52, 48, 45, 56, 48>>   \* '40-80'
C_2_5_7_9 == <<50, 46, 53, 45, 55, 46, 57>>   \* '2.5-7.9'
C_300_400 == <<51, 48, 48, 45, 52, 48, 48>>   \* '300-400'
C_0_dash_7 == <<48, 45, 55>>   \* '0-7'

\* the cells tried in every numeric column
NumCells ==
    {C_Blank, C_Space, C_7, C_300, C_500, C_70000, C_Minus1, C_Minus5,
     C_0_29, C_2_5, C_12_9, C_abc, C_nan, C_inf, C_40_80, None}

\* further ranges tried in the depth and rate columns
RangeCells == {C_2_5_7_9, C_300_400, C_0_dash_7}

N_Clay == <<67, 108, 97, 121>>   \* 'Clay'
N_Sand == <<83, 97, 110, 100>>   \* 'Sand'
N_Loam == <<76, 111, 97, 109>>   \* 'Loam'
N_Drip == <<68, 114, 105, 112>>   \* 'Drip'
N_Sprinkler == <<83, 112, 114, 105, 110, 107, 108, 101, 114>>   \* 'Sprinkler'
N_Flood == <<70, 108, 111, 111, 100>>   \* 'Flood'
N_Tomato == <<84, 111, 109, 97, 116, 111>>   \* 'Tomato'
N_Basil == <<66, 97, 115, 105, 108>>   \* 'Basil'
N_Apple == <<65, 112, 112, 108, 101>>   \* 'Apple'
N_Rosie == <<82, 111, 115, 105, 101>>   \* 'Rosie'
N_Long == <<69, 120, 116, 114, 97, 111, 114, 100, 105, 110, 97, 114, 105, 108, 121, 32, 108, 111, 110, 103, 32, 110, 97, 109, 101, 32, 111, 102, 32, 52, 48, 32, 99, 104, 97, 114, 115, 46, 46>>   \* 'Extraordinarily long name of 40 chars..'
N_Accents == <<80, 259, 116, 108, 259, 103, 101, 108, 101, 32, 114, 111, 537, 105, 105, 32, 537, 105, 32, 118, 105, 110, 101, 116, 101, 32, 109, 97, 114, 105>>   \* 'Pătlăgele roșii și vinete mari'
N_Euro == <<49, 50, 51, 52, 53, 54, 55, 56, 57, 48, 49, 50, 51, 8364, 8364, 8364, 8364, 8364, 8364, 8364, 8364, 8364, 8364, 8364, 8364>>   \* '1234567890123€€€€€€€€€€€€'

\* the cells tried in the name columns
NameCells == {N_Clay, C_Blank, N_Long, N_Accents, N_Euro, None}

W_Vegetables == <<86, 101, 103, 101, 116, 97, 98, 108, 101, 115>>   \* 'Vegetables'
W_vegetables == <<118, 101, 103, 101, 116, 97, 98, 108, 101, 115>>   \* 'vegetables'
W_VEGETABLES == <<86, 69, 71, 69, 84, 65, 66, 76, 69, 83>>   \* 'VEGETABLES'
W_Lawns == <<76, 97, 119, 110, 115>>   \* 'Lawns'
W_Unknown == <<85, 110, 107, 110, 111, 119, 110>>   \* 'Unknown'
W_low == <<108, 111, 119>>   \* 'low'
W_HIGH == <<72, 73, 71, 72>>   \* 'HIGH'
W_high == <<104, 105, 103, 104>>   \* 'high'
W_VHIGH == <<86, 72, 73, 71, 72>>   \* 'VHIGH'
W_MED == <<77, 69, 68>>   \* 'MED'
W_MEDIUM == <<77, 69, 68, 73, 85, 77>>   \* 'MEDIUM'
W_extreme == <<101, 120, 116, 114, 101, 109, 101>>   \* 'extreme'
W_DRIP == <<68, 82, 73, 80>>   \* 'DRIP'
W_drip_pc == <<100, 114, 105, 112, 95, 112, 99>>   \* 'drip_pc'
W_DRIP_PC == <<68, 82, 73, 80, 95, 80, 67>>   \* 'DRIP_PC'
W_MANUAL == <<77, 65, 78, 85, 65, 76>>   \* 'MANUAL'
W_SPRINKLER == <<83, 80, 82, 73, 78, 75, 76, 69, 82>>   \* 'SPRINKLER'
W_yes == <<121, 101, 115>>   \* 'yes'
W_YES == <<89, 69, 83>>   \* 'YES'
W_True == <<84, 114, 117, 101>>   \* 'True'
W_no == <<110, 111>>   \* 'no'
W_fruit == <<102, 114, 117, 105, 116>>   \* 'fruit'
W_leaf == <<108, 101, 97, 102>>   \* 'leaf'

CategoryCells == {W_Vegetables, W_vegetables, W_VEGETABLES, W_Lawns, W_Unknown, C_Blank, None}
ToleranceCells == {C_Blank, W_low, W_HIGH, W_high, W_VHIGH, W_MEDIUM, W_extreme, None}
MethodCells == {W_DRIP, W_drip_pc, W_DRIP_PC, W_MANUAL, W_Unknown, C_Blank, None}
FlagCells == {W_yes, W_YES, W_True, STR_1, W_no, STR_0, C_Blank, None}
EdibleCells == {W_fruit, C_Space, C_Blank, None}

\* the columns of each CSV, and those read as numbers
PlantColumns ==
    {"category", "kc_ini", "kc_mid", "kc_end", "root_depth_max_m",
     "depletion_fraction_p", "stage_days_ini", "stage_days_dev", "stage_days_mid",
     "stage_days_end", "indoor_ok", "toxic_flag", "edible_part", "drought_tolerance",
     "typ_irrig_method", "common_name_en", "common_name_ro"}
PlantNumColumns ==
    {"kc_ini", "kc_mid", "kc_end", "root_depth_max_m", "depletion_fraction_p",
     "stage_days_ini", "stage_days_dev", "stage_days_mid", "stage_days_end"}
SoilColumns ==
    {"soil_id", "soil_type", "fc_pctvol", "pwp_pctvol", "awc_mm_per_m", "infil_mm_h",
     "p_raw"}
SoilNumColumns ==
    {"soil_id", "fc_pctvol", "pwp_pctvol", "awc_mm_per_m", "infil_mm_h", "p_raw"}
IrrigationColumns ==
    {"method_id", "method_name", "efficiency_pct", "wetting_fraction",
     "depth_typical_mm", "application_rate_mm_h", "distribution_uniformity_pct"}
IrrigationNumColumns ==
    {"method_id", "efficiency_pct", "wetting_fraction", "depth_typical_mm",
     "application_rate_mm_h", "distribution_uniformity_pct"}

\* the soil row of the spec's scenario
SoilClay ==
    [soil_id |-> <<48>>,
     soil_type |-> N_Clay,
     fc_pctvol |-> <<52, 48>>,
     pwp_pctvol |-> <<50, 48>>,
     awc_mm_per_m |-> <<49, 56, 48>>,
     infil_mm_h |-> <<53>>,
     p_raw |-> <<48, 46, 52>>]

\* soil rows: '1','Sand','12','5','70','30','0.5' and '2','Loam','28','14','140','13','0.5'
SoilSand ==
    [soil_id |-> <<49>>,
     soil_type |-> N_Sand,
     fc_pctvol |-> <<49, 50>>,
     pwp_pctvol |-> <<53>>,
     awc_mm_per_m |-> <<55, 48>>,
     infil_mm_h |-> <<51, 48>>,
     p_raw |-> <<48, 46, 53>>]

SoilLoam ==
    [soil_id |-> <<50>>,
     soil_type |-> N_Loam,
     fc_pctvol |-> <<50, 56>>,
     pwp_pctvol |-> <<49, 52>>,
     awc_mm_per_m |-> <<49, 52, 48>>,
     infil_mm_h |-> <<49, 51>>,
     p_raw |-> <<48, 46, 53>>]

\* irrigation rows: '0','Drip','90','0.3','25','4','90'; '1','Sprinkler','75','1.0','20','12','80'; '2','Flood','50','1.0','75','50','60'
IrrDrip ==
    [method_id |-> <<48>>,
     method_name |-> N_Drip,
     efficiency_pct |-> <<57, 48>>,
     wetting_fraction |-> <<48, 46, 51>>,
     depth_typical_mm |-> <<50, 53>>,
     application_rate_mm_h |-> <<52>>,
     distribution_uniformity_pct |-> <<57, 48>>]

IrrSprinkler ==
    [method_id |-> <<49>>,
     method_name |-> N_Sprinkler,
     efficiency_pct |-> <<55, 53>>,
     wetting_fraction |-> <<49, 46, 48>>,
     depth_typical_mm |-> <<50, 48>>,
     application_rate_mm_h |-> <<49, 50>>,
     distribution_uniformity_pct |-> <<56, 48>>]

IrrFlood ==
    [method_id |-> <<50>>,
     method_name |-> N_Flood,
     efficiency_pct |-> <<53, 48>>,
     wetting_fraction |-> <<49, 46, 48>>,
     depth_typical_mm |-> <<55, 53>>,
     application_rate_mm_h |-> <<53, 48>>,
     distribution_uniformity_pct |-> <<54, 48>>]

\* plant rows: Vegetables 0.6 1.15 0.8 1.0 0.4 30 40 45 30 no no fruit MED DRIP Tomato Rosie; ...
PlantTomato ==
    [category |-> W_Vegetables,
     kc_ini |-> <<48, 46, 54>>,
     kc_mid |-> <<49, 46, 49, 53>>,
     kc_end |-> <<48, 46, 56>>,
     root_depth_max_m |-> <<49, 46, 48>>,
     depletion_fraction_p |-> <<48, 46, 52>>,
     stage_days_ini |-> <<51, 48>>,
     stage_days_dev |-> <<52, 48>>,
     stage_days_mid |-> <<52, 53>>,
     stage_days_end |-> <<51, 48>>,
     indoor_ok |-> W_no,
     toxic_flag |-> W_no,
     edible_part |-> W_fruit,
     drought_tolerance |-> W_MED,
     typ_irrig_method |-> W_DRIP,
     common_name_en |-> N_Tomato,
     common_name_ro |-> N_Rosie]

PlantBasil ==
    [category |-> <<72, 101, 114, 98, 115>>,
     kc_ini |-> <<48, 46, 53>>,
     kc_mid |-> <<49, 46, 48>>,
     kc_end |-> <<48, 46, 57>>,
     root_depth_max_m |-> <<48, 46, 52>>,
     depletion_fraction_p |-> <<48, 46, 53>>,
     stage_days_ini |-> <<50, 48>>,
     stage_days_dev |-> <<51, 48>>,
     stage_days_mid |-> <<52, 48>>,
     stage_days_end |-> <<50, 48>>,
     indoor_ok |-> W_yes,
     toxic_flag |-> W_no,
     edible_part |-> W_leaf,
     drought_tolerance |-> W_low,
     typ_irrig_method |-> W_DRIP_PC,
     common_name_en |-> N_Basil,
     common_name_ro |-> N_Basil]

PlantApple ==
    [category |-> <<70, 114, 117, 105, 116, 115>>,
     kc_ini |-> <<48, 46, 52, 53>>,
     kc_mid |-> <<48, 46, 57, 53>>,
     kc_end |-> <<48, 46, 55>>,
     root_depth_max_m |-> <<49, 46, 53>>,
     depletion_fraction_p |-> <<48, 46, 53>>,
     stage_days_ini |-> <<50, 48>>,
     stage_days_dev |-> <<55, 48>>,
     stage_days_mid |-> <<57, 48>>,
     stage_days_end |-> <<51, 48>>,
     indoor_ok |-> W_no,
     toxic_flag |-> W_no,
     edible_part |-> W_fruit,
     drought_tolerance |-> W_HIGH,
     typ_irrig_method |-> W_SPRINKLER,
     common_name_en |-> N_Apple,
     common_name_ro |-> N_Apple]

Columns(s) ==
    CASE s = "plants" -> PlantColumns
      [] s = "soils" -> SoilColumns
      [] s = "irrigation" -> IrrigationColumns

\* the well-formed rows of each schema, in a fixed order
BaseRows(s) ==
    CASE s = "plants" -> <<PlantTomato, PlantBasil, PlantApple>>
      [] s = "soils" -> <<SoilClay, SoilSand, SoilLoam>>
      [] s = "irrigation" -> <<IrrDrip, IrrSprinkler, IrrFlood>>

\* row i of a CSV of well-formed rows
BaseRow(s, i) == BaseRows(s)[((i - 1) % 3) + 1]

\* the first base row with one cell replaced
Probe(s, col, cell) == [BaseRow(s, 1) EXCEPT ![col] = cell]

\* the rows under study: one cell of a well-formed row replaced
ProbeRows(s) ==
    CASE s = "plants" ->
            {Probe(s, c, v) : c \in PlantNumColumns, v \in NumCells}
               \cup {Probe(s, "category", v) : v \in CategoryCells}
               \cup {Probe(s, "drought_tolerance", v) : v \in ToleranceCells}
               \cup {Probe(s, "typ_irrig_method", v) : v \in MethodCells}
               \cup {Probe(s, c, v) : c \in {"indoor_ok", "toxic_flag"}, v \in FlagCells}
               \cup {Probe(s, "edible_part", v) : v \in EdibleCells}
               \cup {Probe(s, c, v) : c \in {"common_name_en", "common_name_ro"}, v \in NameCells}
      [] s = "soils" ->
            {Probe(s, c, v) : c \in SoilNumColumns, v \in NumCells}
               \cup {Probe(s, "soil_type", v) : v \in NameCells}
      [] s = "irrigation" ->
            {Probe(s, c, v) : c \in IrrigationNumColumns, v \in NumCells}
               \cup {Probe(s, c, v) : c \in {"depth_typical_mm", "application_rate_mm_h"},
                                       v \in RangeCells}
               \cup {Probe(s, "method_name", v) : v \in NameCells}

\* a row of a CSV whose header lacks the column col
Without(row, col) == [c \in (DOMAIN row) \ {col} |-> row[c]]

CsvMissing == [exists |-> FALSE, rows |-> <<>>]
CsvOf(rows) == [exists |-> TRUE, rows |-> rows]

\* a CSV of n well-formed rows
BaseCsv(s, n) == CsvOf([i \in 1..n |-> BaseRow(s, i)])

\* the CSVs under study: up to MaxRows rows, the last one a probe row, or all
\* rows without one column, or without both name columns
ProbeCsvs(s) ==
    UNION {    {CsvOf([i \in 1..n |-> IF i < n THEN BaseRow(s, i) ELSE p]) : p \in ProbeRows(s)}
          \cup {CsvOf([i \in 1..n |-> Without(BaseRow(s, i), c)]) : c \in Columns(s)}
          \cup (IF s = "plants"
                THEN {CsvOf([i \in 1..n |-> Without(Without(BaseRow(s, i), "common_name_en"),
                                                    "common_name_ro")])}
                ELSE {})
          : n \in 1..MaxRows}

\* a row on which the encoder raises
BadRow(s) ==
    CASE s = "plants" -> Probe(s, "kc_mid", C_inf)
      [] s = "soils" -> Probe(s, "soil_id", C_300)
      [] s = "irrigation" -> Probe(s, "method_id", C_Minus1)

\* the CSVs of whole runs: up to MaxRows rows, each a well-formed row or the
\* bad one
RunRows(s) == {BaseRow(s, 1), BaseRow(s, 2), BadRow(s)}
RunCsvs(s) ==
    UNION {{CsvOf(rows) : rows \in [1..n -> RunRows(s)]} : n \in 0..MaxRows}

\* an output file left by something else: longer than any file of this model
NoFile == [exists |-> FALSE, bytes |-> <<>>]
StaleFile == [exists |-> TRUE, bytes |-> [i \in 1..(HEADER_SIZE + (MaxRows + 2) * PLANT_RECORD_SIZE) |-> 170]]

InitLocals ==
    /\ pc = "check"
    /\ cur = 1
    /\ rowIdx = 0
    /\ plant_id = 0
    /\ records = <<>>
    /\ record = <<>>
    /\ data = <<>>
    /\ count = 0
    /\ crc = NoU32
    /\ header = <<>>
    /\ handles = {}
    /\ out = <<>>
    /\ exc = NoExc
    /\ run = 1
    /\ disk0 = disk
    /\ es = EsIdle
    /\ gen = GenIdle
    /\ si = SiIdle
    /\ big = LongIdle

\* whole runs: one schema's CSV varies over RunCsvs, the two others are
\* missing or hold one row; the output directory is empty or holds stale files
Init ==
    /\ \E f \in 1..3 : \E c \in RunCsvs(Schemas[f]) :
         \E o \in [{"plants", "soils", "irrigation"} \ {Schemas[f]} -> BOOLEAN] :
            csv = [s \in {"plants", "soils", "irrigation"} |->
                      IF s = Schemas[f] THEN c
                      ELSE IF o[s] THEN BaseCsv(s, 1) ELSE CsvMissing]
    /\ disk \in {[s \in {"plants", "soils", "irrigation"} |-> NoFile],
                 [s \in {"plants", "soils", "irrigation"} |-> StaleFile]}
    /\ InitLocals

Spec == Init /\ [][Next]_vars

\* rows: one schema's CSV varies over ProbeCsvs, the two others are both
\* missing or both hold one row; the output directory is empty
InitRows ==
    /\ \E f \in 1..3 : \E c \in ProbeCsvs(Schemas[f]), o \in BOOLEAN :
            csv = [s \in {"plants", "soils", "irrigation"} |->
                      IF s = Schemas[f] THEN c
                      ELSE IF o THEN BaseCsv(s, 1) ELSE CsvMissing]
    /\ disk = [s \in {"plants", "soils", "irrigation"} |-> NoFile]
    /\ InitLocals

SpecRows == InitRows /\ [][Next]_vars

(***************************************************************************)
(* encode_string called on its own: any text of the inputs, any width from *)
(* 0 to MaxWidth.  The converter does not run.                             *)
(***************************************************************************)
ConverterIdle ==
    /\ csv = [s \in {"plants", "soils", "irrigation"} |-> CsvMissing]
    /\ disk = [s \in {"plants", "soils", "irrigation"} |-> NoFile]
    /\ pc = "idle"
    /\ cur = 1
    /\ rowIdx = 0
    /\ plant_id = 0
    /\ records = <<>>
    /\ record = <<>>
    /\ data = <<>>
    /\ count = 0
    /\ crc = NoU32
    /\ header = <<>>
    /\ handles = {}
    /\ out = <<>>
    /\ exc = NoExc
    /\ run = 1
    /\ disk0 = disk

\* the texts handed to encode_string
EncodeTexts ==
    {C_Blank, C_7, N_Clay, N_Tomato, N_Sprinkler, N_Long, N_Accents, N_Euro}

InitEncode ==
    /\ ConverterIdle
    /\ gen = GenIdle
    /\ si = SiIdle
    /\ big = LongIdle
    /\ \E s \in EncodeTexts : \E n \in 0..MaxWidth :
          es = [pc |-> "call", s |-> s, max_len |-> n, ret |-> <<>>]

\* the call returns
EncodeString ==
    /\ es.pc = "call"
    /\ es' = [es EXCEPT !.pc = "return", !.ret = encode_string(es.s, es.max_len)]
    /\ UNCHANGED <<convVars, gen, si, big>>

NextEncode == EncodeString

SpecEncode == InitEncode /\ [][NextEncode]_vars

(***************************************************************************)
(* safe_int called on its own, on decimal numerals: a sign, an integer     *)
(* part and a fraction.  The converter does not run.                       *)
(***************************************************************************)
\* the integer parts: the text and its value
IntParts ==
    { <<<<48>>, 0>>, <<<<49>>, 1>>, <<<<51>>, 3>>, <<<<49, 50>>, 12>>, <<<<52, 48>>, 40>>,
      <<<<57, 57>>, 99>>, <<<<50, 53, 52>>, 254>>, <<<<50, 53, 53>>, 255>>,
      <<<<55, 48, 48, 48, 48>>, 70000>> }

\* the fractions: none, '.0', '.5', '.7', '.9', '.99'
FracParts ==
    { <<>>, <<46, 48>>, <<46, 53>>, <<46, 55>>, <<46, 57>>, <<46, 57, 57>> }

\* the signs: none, '-'
SignParts == { <<>>, <<45>> }

\* the decimal cells handed to safe_int
DecimalCells == {sg \o ip[1] \o fp : sg \in SignParts, ip \in IntParts, fp \in FracParts}

InitSafeInt ==
    /\ ConverterIdle
    /\ es = EsIdle
    /\ gen = GenIdle
    /\ big = LongIdle
    /\ \E val \in DecimalCells : si = [pc |-> "call", val |-> val, ret |-> IntOk(0)]

\* the call returns or raises
SafeInt ==
    /\ si.pc = "call"
    /\ si' = [si EXCEPT !.pc = "return", !.ret = safe_int(si.val)]
    /\ UNCHANGED <<convVars, es, gen, big>>

NextSafeInt == SafeInt

SpecSafeInt == InitSafeInt /\ [][NextSafeInt]_vars

(***************************************************************************)
(* A long CSV: main() on one schema whose CSV has about 65535 well-formed  *)
(* rows.  The rows and the records are counted, not held: of a record only *)
(* the identifier convert_plants packs into it is kept, of the payload     *)
(* only its number of records.  The run is taken up inside the loop of     *)
(* convert_<s>, after the rows below the limit have been appended.         *)
(***************************************************************************)
\* the rows already appended when the run is taken up
LongStart == 65535 - MaxOver

\* the number of rows of the long CSVs
LongRows == LongStart .. (65535 + MaxOver)

\* the output file before the run: absent, or left by an earlier run
LongFiles == { [kind |-> "absent", header |-> <<>>, records |-> 0, last |-> <<>>],
               [kind |-> "stale", header |-> <<>>, records |-> 0, last |-> <<>>] }

\* the identifier the loop packs first into a record of the schema: plant_id
\* for plants, a cell of the (well-formed) row otherwise
LongId(s, id) == IF s = "plants" THEN PackH(id) ELSE PackB(1)

InitLong ==
    /\ ConverterIdle
    /\ es = EsIdle
    /\ gen = GenIdle
    /\ si = SiIdle
    /\ \E s \in {"plants", "soils", "irrigation"}, n \in LongRows, f \in LongFiles :
          big = [pc |-> "rows", schema |-> s, rows |-> n, rowIdx |-> LongStart,
                 plant_id |-> IF s = "plants" THEN LongStart ELSE 0,
                 records |-> LongStart,
                 last |-> LongId(s, LongStart - 1).bytes,
                 count |-> 0, header |-> <<>>, file |-> f, file0 |-> f,
                 exc |-> NoExc, site |-> "none"]

\* one pass of the loop of convert_<s>: struct.pack, assert, records.append,
\* plant_id += 1
LongRow ==
    /\ big.pc = "rows"
    /\ big.rowIdx < big.rows
    /\ \E r \in {LongId(big.schema, big.plant_id)} :
          IF r.exc = NoExc
          THEN big' = [big EXCEPT !.records = @ + 1,
                                  !.last = r.bytes,
                                  !.plant_id = IF big.schema = "plants" THEN @ + 1 ELSE @,
                                  !.rowIdx = @ + 1]
          ELSE big' = [big EXCEPT !.pc = "failed", !.exc = r.exc, !.site = "convert"]
    /\ UNCHANGED <<convVars, es, gen, si>>

\* convert_<s> returns (b''.join(records), len(records))
LongReturn ==
    /\ big.pc = "rows"
    /\ big.rowIdx = big.rows
    /\ big' = [big EXCEPT !.pc = "header", !.count = big.records]
    /\ UNCHANGED <<convVars, es, gen, si>>

\* write_binary_db, lines 294-295: the checksum of the payload, any 32-bit
\* value, and pack_header
LongPackHeader ==
    /\ big.pc = "header"
    /\ \E c \in {ToU32(0), [hi |-> 65535, lo |-> 65535]} :
       \E h \in {pack_header(Magic(big.schema), big.count, c, RecordSize(big.schema))} :
          IF h.exc = NoExc
          THEN big' = [big EXCEPT !.pc = "open", !.header = h.bytes]
          ELSE big' = [big EXCEPT !.pc = "failed", !.exc = h.exc, !.site = "pack_header"]
    /\ UNCHANGED <<convVars, es, gen, si>>

\* line 297: open(output_path, 'wb')
LongOpen ==
    /\ big.pc = "open"
    /\ big' = [big EXCEPT !.pc = "write_header",
                          !.file = [kind |-> "written", header |-> <<>>, records |-> 0,
                                    last |-> <<>>]]
    /\ UNCHANGED <<convVars, es, gen, si>>

\* line 298: f.write(header)
LongWriteHeader ==
    /\ big.pc = "write_header"
    /\ big' = [big EXCEPT !.pc = "write_data", !.file.header = big.header]
    /\ UNCHANGED <<convVars, es, gen, si>>

\* line 299: f.write(data), and the end of write_binary_db
LongWriteData ==
    /\ big.pc = "write_data"
    /\ big' = [big EXCEPT !.pc = "done", !.file.records = big.count,
                          !.file.last = big.last]
    /\ UNCHANGED <<convVars, es, gen, si>>

NextLong ==
    \/ LongRow
    \/ LongReturn
    \/ LongPackHeader
    \/ LongOpen
    \/ LongWriteHeader
    \/ LongWriteData

SpecLong == InitLong /\ [][NextLong]_vars

(***************************************************************************)
(* The plant generator, tools/csv2plant_full.py: the planting density of   *)
(* one row of plants_full.csv (lines 143-147).  Its floats are the doubles *)
(* of float(text) above; the product of two doubles and the reciprocal of  *)
(* one are computed on their 53-bit mantissas and rounded to nearest, ties *)
(* to even.  The domain has no product or reciprocal that overflows or     *)
(* underflows.                                                             *)
(***************************************************************************)
\* a + b, limb by limb
RECURSIVE BigAddFrom(_, _, _, _)
BigAddFrom(a, b, i, carry) ==
    IF i > 8 THEN <<>>
    ELSE CHOOSE r \in {<<t % LimbBase>> \o BigAddFrom(a, b, i + 1, t \div LimbBase) :
                        t \in {a[i] + b[i] + carry}} : TRUE

BigAdd(a, b) == BigAddFrom(a, b, 1, 0)

\* a - b for a >= b, limb by limb
RECURSIVE BigSubFrom(_, _, _, _)
BigSubFrom(a, b, i, borrow) ==
    IF i > 8 THEN <<>>
    ELSE CHOOSE r \in {<<t % LimbBase>> \o BigSubFrom(a, b, i + 1, 1 - (t \div LimbBase)) :
                        t \in {LimbBase + a[i] - b[i] - borrow}} : TRUE

BigSub(a, b) == BigSubFrom(a, b, 1, 0)

\* a >= b, told by the highest limb at which they differ
BigGeqAt(a, b, diff) == diff = {} \/ a[MaxOf(diff)] > b[MaxOf(diff)]
BigGeq(a, b) == BigGeqAt(a, b, {i \in 1..8 : a[i] # b[i]})

\* a * 2^(15 k)
BigShlLimbs(a, k) ==
    << Limb(a, 1 - k), Limb(a, 2 - k), Limb(a, 3 - k), Limb(a, 4 - k),
       Limb(a, 5 - k), Limb(a, 6 - k), Limb(a, 7 - k), Limb(a, 8 - k) >>

\* a * b of two mantissas (below 2^53, four limbs each)
BigMul(a, b) ==
    BigAdd(BigAdd(BigMulSmall(a, b[1]), BigShlLimbs(BigMulSmall(a, b[2]), 1)),
           BigAdd(BigShlLimbs(BigMulSmall(a, b[3]), 2), BigShlLimbs(BigMulSmall(a, b[4]), 3)))

\* n more bits of the quotient of a division by d, one bit at a time, from
\* the quotient q and the remainder r so far: [q, r]
RECURSIVE DivBits(_, _, _, _)
RECURSIVE DivStep(_, _, _, _)
DivBits(r, d, q, n) ==
    IF n = 0 THEN [q |-> q, r |-> r]
    ELSE CHOOSE x \in {DivStep(r2, d, q2, n) : r2 \in {BigMulSmall(r, 2)},
                                                q2 \in {BigMulSmall(q, 2)}} : TRUE
DivStep(r2, d, q2, n) ==
    IF BigGeq(r2, d)
    THEN CHOOSE x \in {DivBits(r3, d, q3, n - 1) : r3 \in {BigSub(r2, d)},
                                                    q3 \in {BigInc(q2)}} : TRUE
    ELSE DivBits(r2, d, q2, n - 1)

\* fourteen more bits of the division h = [q, r] by d
Div14(h, d) == CHOOSE x \in {DivBits(v.r, d, v.q, 14) : v \in {h}} : TRUE

\* floor(r * 2^56 / d) for r < d and what is left: [q, r]
Div56(r, d) == Div14(Div14(Div14(Div14([q |-> NoLimbs, r |-> r], d), d), d), d)

\* 2^51
TwoTo51 == <<0, 0, 0, 64, 0, 0, 0, 0>>

\* the double nearest to 2^107 / m * 2^(-107 - e), from dv = [q, r] of the
\* division of 2^107 by m
RecipOf(dv, e) == Scaled(RoundTo53(dv.q, dv.r # NoLimbs), 0 - 107 - e)

\* 1.0 / x of a double x = m * 2^e with 2^52 <= m < 2^53
DoubleRecip(x) == RecipOf(Div56(TwoTo51, x.m), x.e)

\* x * y of two doubles
DoubleMul(x, y) == Scaled(RoundTo53(BigMul(x.m, y.m), FALSE), x.e + y.e)

\* f <= 0 of a float: false for nan
FloatLeqZero(f) == f.kind = "zero" \/ (f.kind \in {"num", "inf"} /\ f.neg)

\* x * y of two floats
FloatMul(x, y) ==
    IF x.kind = "nan" \/ y.kind = "nan" THEN Float("nan", FALSE, NoLimbs, 0)
    ELSE IF {x.kind, y.kind} = {"inf", "zero"} THEN Float("nan", FALSE, NoLimbs, 0)
    ELSE IF "inf" \in {x.kind, y.kind} THEN Float("inf", x.neg # y.neg, NoLimbs, 0)
    ELSE IF "zero" \in {x.kind, y.kind} THEN Float("zero", x.neg # y.neg, NoLimbs, 0)
    ELSE MakeFloat(x.neg # y.neg, DoubleMul(x, y))

\* 1.0 / x of a float: [exc, f]
FloatRecip(x) ==
    IF x.kind = "zero" THEN [exc |-> "ZeroDivisionError", f |-> FloatZero]
    ELSE IF x.kind = "nan" THEN [exc |-> NoExc, f |-> x]
    ELSE IF x.kind = "inf" THEN [exc |-> NoExc, f |-> Float("zero", x.neg, NoLimbs, 0)]
    ELSE [exc |-> NoExc, f |-> MakeFloat(x.neg, DoubleRecip(x))]

\* the float literals 0.0, 0.5 and 0.3 of lines 143-145 and 60-62
FLOAT_0_0 == FloatZero
FLOAT_0_5 == ParseFloat(STR_0_5)
FLOAT_0_3 == ParseFloat(STR_0_3)

\* float(v) or the default on ValueError (lines 28-31)
FloatOrDefault(f, default) == IF f.kind = "error" THEN default ELSE f

\* safe_float(v, default) of csv2plant_full.py (lines 22-31)
plant_safe_float(v, default) ==
    IF v = None THEN default
    ELSE IF Strip(v) = <<>> THEN default
    ELSE FloatOrDefault(ParseFloat(Strip(v)), default)

\* lines 61-62: area = row_m * plant_m; 0.0 if area <= 0 else 1.0 / area
DensityOfArea(area) ==
    IF FloatLeqZero(area) THEN [exc |-> NoExc, f |-> FLOAT_0_0] ELSE FloatRecip(area)

\* calculate_density_from_spacing(row_m, plant_m) (lines 58-62): [exc, f]
calculate_density_from_spacing(row_m, plant_m) ==
    IF FloatLeqZero(row_m) \/ FloatLeqZero(plant_m) THEN [exc |-> NoExc, f |-> FLOAT_0_0]
    ELSE DensityOfArea(FloatMul(row_m, plant_m))

C_0 == <<48>>   \* '0'
C_0_3 == <<48, 46, 51>>   \* '0.3'
C_0_7 == <<48, 46, 55>>   \* '0.7'
C_1_5 == <<49, 46, 53>>   \* '1.5'
C_MinusInf == <<45, 105, 110, 102>>   \* '-inf'

\* the cells tried in the density column and in the two spacing columns
DensityCells ==
    {C_Blank, C_Space, C_abc, C_0, C_Minus1, C_MinusInf, C_2_5, C_7, C_nan, C_inf, None}
SpacingRowCells == {C_Blank, C_abc, C_0, C_Minus1, C_0_7, C_1_5, C_nan, C_inf, None}
SpacingPlantCells == {C_Blank, C_0, C_Minus5, C_0_3, C_0_29, C_7, C_nan, C_inf}

GenColumns == {"spacing_row_m", "spacing_plant_m", "default_density_plants_m2"}

\* the rows of plants_full.csv under study, cut to the three columns the
\* density is made from; a CSV without one of the columns gives rows without it
GenRow(r, p, d) ==
    [spacing_row_m |-> r, spacing_plant_m |-> p, default_density_plants_m2 |-> d]
GenRows ==
    {GenRow(r, p, d) : r \in SpacingRowCells, p \in SpacingPlantCells, d \in DensityCells}
       \cup {Without(GenRow(r, p, d), c) :
                r \in {C_0_7, C_0}, p \in {C_0_3, C_Minus5}, d \in {C_Blank, C_2_5, C_0},
                c \in GenColumns}

\* generate is at a row of the CSV, before line 143
InitGen ==
    /\ ConverterIdle
    /\ es = EsIdle
    /\ si = SiIdle
    /\ big = LongIdle
    /\ \E row \in GenRows :
          gen = [pc |-> "row", row |-> row, spacing_row |-> FLOAT_0_0,
                 spacing_plant |-> FLOAT_0_0, density |-> FLOAT_0_0, exc |-> NoExc]

\* lines 143-145: the two spacings and the density of the row
ReadDensity ==
    /\ gen.pc = "row"
    /\ gen' = [gen EXCEPT
                 !.pc = "test",
                 !.spacing_row = plant_safe_float(Get(gen.row, "spacing_row_m", <<>>), FLOAT_0_5),
                 !.spacing_plant = plant_safe_float(Get(gen.row, "spacing_plant_m", <<>>), FLOAT_0_3),
                 !.density = plant_safe_float(Get(gen.row, "default_density_plants_m2", <<>>),
                                              FLOAT_0_0)]
    /\ UNCHANGED <<convVars, es, si, big>>

\* generate goes on with the density r = [exc, f], or the exception leaves it
Derived(r) ==
    gen' = [gen EXCEPT !.pc = IF r.exc = NoExc THEN "stored" ELSE "failed",
                       !.density = r.f,
                       !.exc = r.exc]

\* lines 146-147: density <= 0, the density is made from the spacings
DeriveDensity ==
    /\ gen.pc = "test"
    /\ FloatLeqZero(gen.density)
    /\ Derived(calculate_density_from_spacing(gen.spacing_row, gen.spacing_plant))
    /\ UNCHANGED <<convVars, es, si, big>>

\* line 146: density <= 0 is false, the density of the row is kept
KeepDensity ==
    /\ gen.pc = "test"
    /\ ~FloatLeqZero(gen.density)
    /\ gen' = [gen EXCEPT !.pc = "stored"]
    /\ UNCHANGED <<convVars, es, si, big>>

NextGen ==
    \/ ReadDensity
    \/ DeriveDensity
    \/ KeepDensity

SpecGen == InitGen /\ [][NextGen]_vars

(***************************************************************************)
(* Reading a file or a record back: the unsigned little-endian 16-bit and  *)
(* 32-bit values at a byte offset (counted from 0), and saturation.        *)
(***************************************************************************)
U16At(b, off) == b[off + 1] + 256 * b[off + 2]
U32At(b, off) == [hi |-> U16At(b, off + 2), lo |-> U16At(b, off)]

Sat(v, top) == IF v < 0 THEN 0 ELSE IF v > top THEN top ELSE v

\* the row whose record is being asserted on
RowNow == csv[Sch].rows[rowIdx + 1]

\* write_binary_db has returned for schema number i in this run
Completed(i) ==
    /\ csv[Schemas[i]].exists
    /\ \/ i < cur
       \/ i = cur /\ pc \in {"report", "summary", "done"}

\* the cell is missing from the row: its column is absent, or it is empty or
\* whitespace-only
MissingCell(row, col) ==
    \/ col \notin DOMAIN row
    \/ row[col] # None /\ Strip(row[col]) = <<>>

\* the bytes of an ASCII text
IsAscii(s) == \A i \in 1..Len(s) : s[i] >= 0 /\ s[i] < 128

\* C1: every record an encoder finishes has the declared size of its schema
\* (plants 48, soils 24, irrigation 24): the length assertion never fails,
\* every record in the list and every returned payload is made of records of
\* that size
C1_RecordLength ==
    /\ exc # "AssertionError"
    /\ pc = "assert" =>
          /\ Len(record) = RecordSize(Sch)
          /\ Len(record) = (IF Sch = "plants" THEN 48 ELSE 24)
    /\ pc \in {"rows", "assert"} =>
          \A i \in 1..Len(records) : Len(records[i]) = RecordSize(Sch)
    /\ pc \in {"header", "open", "write_header", "write_data", "report"} =>
          Len(data) = count * RecordSize(Sch)

\* a plant row with a name longer than the name field has been encoded
C1_Witness ==
    /\ pc = "assert"
    /\ Sch = "plants"
    /\ Get(RowNow, "common_name_en", <<>>) = N_Long
    /\ Len(record) = 48

\* C2: in every file write_binary_db has written, the crc32 field of the
\* header (bytes 8..11) is the CRC-32 of the bytes after the 16-byte header
C2_CrcOfPayload ==
    \A i \in 1..3 :
        Completed(i) =>
            /\ Len(disk[Schemas[i]].bytes) >= HEADER_SIZE
            /\ U32At(disk[Schemas[i]].bytes, 8)
                 = ZlibCrc32(SubSeq(disk[Schemas[i]].bytes, 17, Len(disk[Schemas[i]].bytes)))

\* a file of two records has been written, with a checksum that is not 0
C2_Witness ==
    /\ pc = "report"
    /\ Len(disk[Sch].bytes) = HEADER_SIZE + 2 * RecordSize(Sch)
    /\ U32At(disk[Sch].bytes, 8) # NoU32

\* C3: a file write_binary_db has written is the header followed by the
\* payload and nothing else, whatever it held before: 16 + count * record_size
\* bytes, count the number of rows of the CSV, record_size the schema's
C3_FileIsHeaderAndPayload ==
    /\ pc = "report" => disk[Sch].bytes = header \o data
    /\ \A i \in 1..3 :
          Completed(i) =>
             /\ Len(disk[Schemas[i]].bytes)
                  = 16 + Len(csv[Schemas[i]].rows) * RecordSize(Schemas[i])
             /\ U16At(disk[Schemas[i]].bytes, 6) = Len(csv[Schemas[i]].rows)
             /\ U16At(disk[Schemas[i]].bytes, 12) = (IF i = 1 THEN 48 ELSE 24)

\* a file of two records has replaced a longer file
C3_Witness ==
    /\ pc = "report"
    /\ cur = 1
    /\ count = 2
    /\ disk["soils"] = StaleFile
    /\ Len(disk[Sch].bytes) < Len(StaleFile.bytes)

\* C4: a header is 16 bytes: magic u32, version u16 = 1, count u16, crc32
\* u32, record_size u16, reserved u16 = 0, little-endian; the magic is
\* 0x504C4E54 for plants, 0x534F494C for soils, 0x49525247 for irrigation
C4_HeaderLayout ==
    pc \in {"open", "write_header", "write_data", "report"} =>
        /\ Len(header) = 16
        /\ SubSeq(header, 1, 4) = (CASE Sch = "plants" -> <<84, 78, 76, 80>>
                                     [] Sch = "soils" -> <<76, 73, 79, 83>>
                                     [] Sch = "irrigation" -> <<71, 82, 82, 73>>)
        /\ U16At(header, 4) = 1
        /\ U16At(header, 6) = count
        /\ U32At(header, 8) = crc
        /\ U16At(header, 12) = RecordSize(Sch)
        /\ U16At(header, 14) = 0
        /\ \A s, t \in {"plants", "soils", "irrigation"} :
              Magic(s) # 0 /\ (s # t => Magic(s) # Magic(t))

\* the header of an irrigation file of two records has been packed
C4_Witness ==
    /\ pc = "open"
    /\ Sch = "irrigation"
    /\ count = 2
    /\ crc # NoU32

\* C5: every 8-bit parameter is stored as min(255, max(0, v)) of its coerced
\* and scaled value v, soil awc as min(65535, max(0, v)); efficiency "500" is
\* stored as 255
C5_Saturated ==
    pc = "assert" =>
        /\ Sch = "plants" =>
              /\ record[29] = Sat(ScaledInt(Get(RowNow, "kc_ini", STR_0_3), 100).v, 255)
              /\ record[30] = Sat(ScaledInt(Get(RowNow, "kc_mid", STR_1_0), 100).v, 255)
              /\ record[31] = Sat(ScaledInt(Get(RowNow, "kc_end", STR_0_5), 100).v, 255)
              /\ record[32] = Sat(ScaledInt(Get(RowNow, "root_depth_max_m", STR_0_5), 10).v, 255)
              /\ record[33] = Sat(ScaledInt(Get(RowNow, "depletion_fraction_p", STR_0_5), 100).v, 255)
              /\ record[34] = Sat(safe_int(Get(RowNow, "stage_days_ini", STR_20)).v, 255)
              /\ record[35] = Sat(safe_int(Get(RowNow, "stage_days_dev", STR_30)).v, 255)
              /\ record[36] = Sat(safe_int(Get(RowNow, "stage_days_mid", STR_40)).v, 255)
              /\ record[37] = Sat(safe_int(Get(RowNow, "stage_days_end", STR_20)).v, 255)
        /\ Sch = "soils" =>
              /\ record[17] = Sat(safe_int(Get(RowNow, "fc_pctvol", STR_30)).v, 255)
              /\ record[18] = Sat(safe_int(Get(RowNow, "pwp_pctvol", STR_15)).v, 255)
              /\ U16At(record, 18) = Sat(safe_int(Get(RowNow, "awc_mm_per_m", STR_150)).v, 65535)
              /\ record[21] = Sat(safe_int(Get(RowNow, "infil_mm_h", STR_10)).v, 255)
              /\ record[22] = Sat(ScaledInt(Get(RowNow, "p_raw", STR_0_5), 100).v, 255)
        /\ Sch = "irrigation" =>
              /\ record[17] = Sat(safe_int(Get(RowNow, "efficiency_pct", STR_80)).v, 255)
              /\ record[18] = Sat(ScaledInt(Get(RowNow, "wetting_fraction", STR_0_5), 100).v, 255)
              /\ record[19] = Sat(RangeValue(Get(RowNow, "depth_typical_mm", STR_30)).v, 255)
              /\ record[20] = Sat(RangeValue(Get(RowNow, "application_rate_mm_h", STR_10)).v, 255)
              /\ record[21] = Sat(safe_int(Get(RowNow, "distribution_uniformity_pct", STR_85)).v, 255)
              /\ Get(RowNow, "efficiency_pct", STR_80) = C_500 => record[17] = 255
              /\ Get(RowNow, "efficiency_pct", STR_80) = C_Minus1 => record[17] = 0

\* the irrigation row with efficiency_pct "500" has been encoded
C5_Witness ==
    /\ pc = "assert"
    /\ Sch = "irrigation"
    /\ Get(RowNow, "efficiency_pct", STR_80) = C_500
    /\ record[17] = 255

\* C6: the identifier slots are clamped like every other slot: a row whose
\* soil_id or method_id is out of range is encoded with the nearest boundary
\* value and no conversion is ended by struct.error
C6_IdentifiersClamped ==
    /\ exc # "struct.error"
    /\ pc = "assert" /\ Sch = "soils" =>
          record[1] = Sat(safe_int(Get(RowNow, "soil_id", STR_0)).v, 255)
    /\ pc = "assert" /\ Sch = "irrigation" =>
          record[1] = Sat(safe_int(Get(RowNow, "method_id", STR_0)).v, 255)

\* the numeric cells of a row, as far as the row has them
NumColumns(s) ==
    CASE s = "plants" -> PlantNumColumns
      [] s = "soils" -> SoilNumColumns
      [] s = "irrigation" -> IrrigationNumColumns

\* C7: safe_float and safe_int raise on no cell a row can hold, the scaling
\* of their result by 100 or 10 raises neither, and so no conversion is ended
\* by an exception of theirs: not by the OverflowError or ValueError of int(),
\* and not by an AttributeError on a numeric cell
C7_CoercionNeverRaises ==
    /\ exc \notin {"OverflowError", "ValueError"}
    /\ exc = "AttributeError" =>
          \A c \in NumColumns(Sch) \cap DOMAIN RowNow :
              /\ safe_float(RowNow[c]).exc = NoExc
              /\ safe_int(RowNow[c]).exc = NoExc

\* C8: a soil numeric field that is missing, its column absent or its cell
\* empty or whitespace-only, is stored as its documented default: fc 30,
\* pwp 15, awc 150, infil 10, p_raw 50
C8_SoilDefaults ==
    pc = "assert" /\ Sch = "soils" =>
        /\ MissingCell(RowNow, "infil_mm_h") => record[21] = 10
        /\ MissingCell(RowNow, "fc_pctvol") => record[17] = 30
        /\ MissingCell(RowNow, "pwp_pctvol") => record[18] = 15
        /\ MissingCell(RowNow, "awc_mm_per_m") => U16At(record, 18) = 150
        /\ MissingCell(RowNow, "p_raw") => record[22] = 50

\* C9: the layout of a soil record: soil_id, the type name zero-padded to 15
\* bytes, fc, pwp, awc little-endian, infil, p_raw times 100, two zero bytes;
\* the Clay row gives the stated 24 bytes and its one-record file has count 1,
\* record_size 24 and the CRC-32 of those bytes, 0x8589C465
C9_SoilLayout ==
    /\ pc = "assert" /\ Sch = "soils" =>
          /\ record[1] = safe_int(Get(RowNow, "soil_id", STR_0)).v
          /\ record[16] = 0
          /\ IsAscii(Get(RowNow, "soil_type", <<>>)) /\ Len(Get(RowNow, "soil_type", <<>>)) <= 14 =>
                SubSeq(record, 2, 16)
                   = Get(RowNow, "soil_type", <<>>) \o Zeros(15 - Len(Get(RowNow, "soil_type", <<>>)))
          /\ record[17] = Sat(safe_int(Get(RowNow, "fc_pctvol", STR_30)).v, 255)
          /\ record[18] = Sat(safe_int(Get(RowNow, "pwp_pctvol", STR_15)).v, 255)
          /\ record[19] + 256 * record[20]
                = Sat(safe_int(Get(RowNow, "awc_mm_per_m", STR_150)).v, 65535)
          /\ record[21] = Sat(safe_int(Get(RowNow, "infil_mm_h", STR_10)).v, 255)
          /\ record[22] = Sat(ScaledInt(Get(RowNow, "p_raw", STR_0_5), 100).v, 255)
          /\ record[23] = 0 /\ record[24] = 0
          /\ RowNow = SoilClay =>
                record = << 0, 67, 108, 97, 121, 0, 0, 0, 0, 0, 0, 0, 0, 0, 0, 0,
                            40, 20, 180, 0, 5, 40, 0, 0 >>
    /\ Completed(2) /\ csv["soils"].rows = <<SoilClay>> =>
          /\ U16At(disk["soils"].bytes, 6) = 1
          /\ U16At(disk["soils"].bytes, 12) = 24
          /\ U32At(disk["soils"].bytes, 8) = [hi |-> 34185, lo |-> 50277]
          /\ SubSeq(disk["soils"].bytes, 17, 40)
                = << 0, 67, 108, 97, 121, 0, 0, 0, 0, 0, 0, 0, 0, 0, 0, 0,
                     40, 20, 180, 0, 5, 40, 0, 0 >>

\* the one-record file of the Clay row has been written
C9_Witness ==
    /\ Completed(2)
    /\ csv["soils"].rows = <<SoilClay>>
    /\ Len(disk["soils"].bytes) = 40

\* the name of a row of schema s, as the encoder reads it
NameOf(s, row) ==
    CASE s = "plants" -> PlantName(row)
      [] s = "soils" -> Get(row, "soil_type", <<>>)
      [] s = "irrigation" -> Get(row, "method_name", <<>>)

\* the offset of the name field in a record of schema s
NameOffset(s) == IF s = "plants" THEN 4 ELSE 1

\* record number k (from 0) of the payload
RecordAt(payload, s, k) == SubSeq(payload, k * RecordSize(s) + 1, (k + 1) * RecordSize(s))

\* the record carries the row's name (an ASCII name that fits the field)
CarriesName(rec, s, name) ==
    IsAscii(name) /\ Len(name) <= 14 =>
        SubSeq(rec, NameOffset(s) + 1, NameOffset(s) + Len(name) + 1) = name \o <<0>>

\* C10: the payload holds the records in the order of the CSV rows: record k
\* carries the name of row k, and for plants the identifier k
C10_RowOrder ==
    pc \in {"header", "open", "write_header", "write_data", "report"} =>
        /\ count = Len(csv[Sch].rows)
        /\ \A k \in 0..(count - 1) :
              /\ CarriesName(RecordAt(data, Sch, k), Sch, NameOf(Sch, csv[Sch].rows[k + 1]))
              /\ Sch = "plants" => U16At(RecordAt(data, Sch, k), 0) = k

\* the two plant rows in swapped order: Basil carries identifier 0 and Tomato 1
C10_Witness ==
    /\ pc = "report"
    /\ Sch = "plants"
    /\ csv["plants"].rows = <<PlantBasil, PlantTomato>>
    /\ U16At(RecordAt(data, Sch, 0), 0) = 0
    /\ SubSeq(RecordAt(data, Sch, 0), 5, 9) = N_Basil
    /\ U16At(RecordAt(data, Sch, 1), 0) = 1
    /\ SubSeq(RecordAt(data, Sch, 1), 5, 10) = N_Tomato

\* C11: a second run on the unchanged CSVs leaves every output file exactly
\* as the first run left it, byte for byte, header and checksum included
C11_Idempotent ==
    run >= 2 /\ pc = "done" => disk = disk0

\* the second run has rewritten a plants file of two records
C11_Witness ==
    /\ run = 2
    /\ pc = "done"
    /\ csv["plants"].exists
    /\ Len(disk["plants"].bytes) = HEADER_SIZE + 2 * PLANT_RECORD_SIZE
    /\ disk0 = disk

\* the first n bytes of b, all of b when it is shorter
Prefix(b, n) == SubSeq(b, 1, IF n < Len(b) THEN n ELSE Len(b))

\* C12: encode_string(s, max_len) is exactly max_len bytes, for every
\* max_len >= 0: the first min(len(utf8(s)), max_len - 1) bytes of the UTF-8
\* encoding of s followed only by zero bytes
C12_FixedWidth ==
    es.pc = "return" =>
        /\ Len(es.ret) = es.max_len
        /\ \E k \in 0..Len(es.ret) :
              /\ k = Len(Prefix(Utf8(es.s), es.max_len - 1))
              /\ SubSeq(es.ret, 1, k) = Prefix(Utf8(es.s), es.max_len - 1)
              /\ \A i \in (k + 1)..Len(es.ret) : es.ret[i] = 0

\* the bytes are a whole database file: a header, count records of
\* record_size bytes, and the checksum of those records
WholeFile(b) ==
    /\ Len(b) >= HEADER_SIZE
    /\ Len(b) = HEADER_SIZE + U16At(b, 6) * U16At(b, 12)
    /\ U32At(b, 8) = ZlibCrc32(SubSeq(b, 17, Len(b)))

\* C13: at every moment every output path is absent, or holds what it held
\* when the run started, or holds a whole new file (header, payload, matching
\* checksum): never an empty file, a header alone or a cut payload
C13_NeverPartial ==
    \A s \in {"plants", "soils", "irrigation"} :
        \/ ~disk[s].exists
        \/ disk[s] = disk0[s]
        \/ WholeFile(disk[s].bytes)

\* C14: whichever of the three CSVs exist, the run ends without an error of
\* the conversion (a failing write apart), a finished run has written a whole
\* file for exactly the schemas whose CSV exists, and the file of a schema
\* whose CSV is missing is never created or changed
C14_MissingIsSkipped ==
    /\ exc \in {NoExc, "OSError"}
    /\ \A s \in {"plants", "soils", "irrigation"} :
          ~csv[s].exists => disk[s] = disk0[s]
    /\ pc = "done" =>
          \A s \in {"plants", "soils", "irrigation"} :
              csv[s].exists =>
                 /\ disk[s].exists
                 /\ Len(disk[s].bytes) = HEADER_SIZE + Len(csv[s].rows) * RecordSize(s)

\* every row of the CSV of schema s is one the encoder accepts
RowsEncode(s) ==
    \A k \in 1..Len(csv[s].rows) : csv[s].rows[k] # BadRow(s)

\* C15: when a run has ended, every schema whose own CSV exists and converts
\* has its whole output file with one record per row, whatever happened to
\* the other two schemas: a failure in one schema does not keep the files of
\* the others from being produced
C15_Independent ==
    pc \in {"done", "failed"} =>
        \A i \in 1..3 :
            /\ csv[Schemas[i]].exists
            /\ RowsEncode(Schemas[i])
            /\ ~(pc = "failed" /\ i = cur)
            => /\ disk[Schemas[i]].exists
               /\ Len(disk[Schemas[i]].bytes)
                    = HEADER_SIZE + Len(csv[Schemas[i]].rows) * RecordSize(Schemas[i])
               /\ WholeFile(disk[Schemas[i]].bytes)

\* the keys of a lookup table
Keys(map) == {e[1] : e \in map}

\* the three categorical cells of a plant row, as the encoder reads them
CategoryCell(row) == Get(row, "category", <<>>)
ToleranceCell(row) == Get(row, "drought_tolerance", <<>>)
MethodCell(row) == Get(row, "typ_irrig_method", STR_DRIP)

\* C16: categorical text never makes the encoder fail and always yields a
\* code of its table: category in 0..7 and 0 when unknown, drought tolerance
\* in 0..3 and 1 when unknown or blank, irrigation method in 0..7 and 0 when
\* unknown
C16_CategoricalDefaults ==
    /\ pc = "assert" /\ Sch = "plants" =>
          /\ record[3] \in 0..7
          /\ record[39] \in 0..3
          /\ record[40] \in 0..7
          /\ CategoryCell(RowNow) \notin Keys(CATEGORY_MAP) => record[3] = 0
          /\ Upper(ToleranceCell(RowNow)) \notin Keys(TOLERANCE_MAP) => record[39] = 1
          /\ Upper(MethodCell(RowNow)) \notin Keys(IRRIGATION_METHOD_MAP) => record[40] = 0
          /\ CategoryCell(RowNow) = W_Unknown => record[3] = 0
          /\ CategoryCell(RowNow) = W_Lawns => record[3] = 7
          /\ ToleranceCell(RowNow) = W_extreme => record[39] = 1
          /\ ToleranceCell(RowNow) = C_Blank => record[39] = 1
          /\ ToleranceCell(RowNow) = W_VHIGH => record[39] = 3
          /\ MethodCell(RowNow) = W_Unknown => record[40] = 0
          /\ MethodCell(RowNow) = W_MANUAL => record[40] = 7
    /\ pc = "failed" /\ exc # "OSError" /\ Sch = "plants" =>
          /\ CategoryCell(RowNow) = CategoryCell(PlantTomato)
          /\ ToleranceCell(RowNow) \in {None, ToleranceCell(PlantTomato)}
          /\ MethodCell(RowNow) \in {None, MethodCell(PlantTomato)}

\* the plant row with the unknown drought tolerance "extreme" has been encoded
C16_Witness ==
    /\ pc = "assert"
    /\ Sch = "plants"
    /\ ToleranceCell(RowNow) = W_extreme
    /\ record[39] = 1

\* C17: the three categorical lookups ignore letter case: "vegetables",
\* "Vegetables" and "VEGETABLES" give category 1, "high" and "HIGH" give
\* tolerance 2, "drip_pc" and "DRIP_PC" give method 1
C17_CaseInsensitive ==
    pc = "assert" /\ Sch = "plants" =>
        /\ CategoryCell(RowNow) \in {W_vegetables, W_Vegetables, W_VEGETABLES} => record[3] = 1
        /\ ToleranceCell(RowNow) \in {W_high, W_HIGH} => record[39] = 2
        /\ MethodCell(RowNow) \in {W_drip_pc, W_DRIP_PC} => record[40] = 1

\* the two ends of the ranges under study, each truncated to an integer, and
\* the integer value of the cells without a dash
RangeEnds ==
    [c \in {C_40_80, C_2_5_7_9, C_300_400, C_0_dash_7} |->
        CASE c = C_40_80 -> <<40, 80>>
          [] c = C_2_5_7_9 -> <<2, 7>>
          [] c = C_300_400 -> <<300, 400>>
          [] c = C_0_dash_7 -> <<0, 7>>]
PlainValue ==
    [c \in {C_7, C_300, C_500, C_70000, C_0_29, C_2_5, C_12_9} |->
        CASE c = C_7 -> 7
          [] c = C_300 -> 300
          [] c = C_500 -> 500
          [] c = C_70000 -> 70000
          [] c = C_0_29 -> 0
          [] c = C_2_5 -> 2
          [] c = C_12_9 -> 12]

\* what a depth or rate cell is to be stored as
StoredRange(cell, byte) ==
    /\ cell \in DOMAIN RangeEnds =>
          byte = MinOf({255, (RangeEnds[cell][1] + RangeEnds[cell][2]) \div 2})
    /\ cell \in DOMAIN PlainValue => byte = MinOf({255, PlainValue[cell]})

\* C18: an irrigation record stores a depth or rate cell "a-b" as
\* min(255, floor((trunc(a) + trunc(b)) / 2)), "40-80" as 60, and a cell
\* without a dash as its clamped integer value
C18_RangeAverage ==
    pc = "assert" /\ Sch = "irrigation" =>
        /\ "depth_typical_mm" \in DOMAIN RowNow =>
              StoredRange(RowNow["depth_typical_mm"], record[19])
        /\ "application_rate_mm_h" \in DOMAIN RowNow =>
              StoredRange(RowNow["application_rate_mm_h"], record[20])
        /\ "depth_typical_mm" \in DOMAIN RowNow /\ RowNow["depth_typical_mm"] = C_40_80 =>
              record[19] = 60

C18_Witness ==
    /\ pc = "assert" /\ Sch = "irrigation"
    /\ "application_rate_mm_h" \in DOMAIN RowNow
    /\ RowNow["application_rate_mm_h"] = C_2_5_7_9
    /\ record[20] = 4

\* the summary and warning lines printed for schema s so far in this run
Outcomes(s, kind) ==
    {i \in DOMAIN out : out[i].line = kind /\ out[i].schema = s}

\* C19: a run that completes has printed, for every schema, one "Created"
\* line if its CSV exists and its file was written, else one warning, never
\* both and never neither; a "Created" line shows the count and the checksum
\* of the file's header and the file's size, 16 + the payload's length, and is
\* printed only once header and payload are in the file
C19_OneOutcome ==
    /\ pc = "done" =>
          \A s \in DOMAIN csv :
             /\ Cardinality(Outcomes(s, "Created")) = (IF csv[s].exists THEN 1 ELSE 0)
             /\ Cardinality(Outcomes(s, "WARNING")) = (IF csv[s].exists THEN 0 ELSE 1)
    /\ \A i \in DOMAIN out :
          out[i].line = "Created" =>
             /\ disk[out[i].schema].exists
             /\ Len(disk[out[i].schema].bytes) >= HEADER_SIZE
             /\ out[i].count = U16At(disk[out[i].schema].bytes, 6)
             /\ out[i].crc = U32At(disk[out[i].schema].bytes, 8)
             /\ out[i].size = Len(disk[out[i].schema].bytes)
             /\ out[i].size = HEADER_SIZE + out[i].count * U16At(disk[out[i].schema].bytes, 12)

C19_Witness ==
    /\ pc = "done"
    /\ csv["plants"].exists /\ ~csv["soils"].exists
    /\ \E i \in DOMAIN out :
          /\ out[i].line = "Created" /\ out[i].schema = "plants"
          /\ out[i].count = 2 /\ out[i].size = HEADER_SIZE + 2 * PLANT_RECORD_SIZE
    /\ \E i \in DOMAIN out : out[i].line = "WARNING" /\ out[i].schema = "soils"

\* the density cell of the row in the generator, blank for a CSV without the
\* column
DensityCell == Get(gen.row, "default_density_plants_m2", <<>>)

\* the row gives a density: the cell is there, not blank, and a float
DensityGiven ==
    /\ DensityCell # None
    /\ Strip(DensityCell) # <<>>
    /\ ParseFloat(DensityCell).kind # "error"

\* the row gives a positive density
DensityPositive ==
    /\ DensityGiven
    /\ ParseFloat(DensityCell).kind \in {"num", "inf"}
    /\ ~ParseFloat(DensityCell).neg

\* 1 / (row * plant) of the positive spacings under study: the texts of the
\* two spacings, the mantissa and the exponent of the quotient
ReciprocalAreas ==
    {
      <<STR_0_5, STR_0_3, <<10923, 21845, 10922, 213, 0, 0, 0, 0>>, -50>>,   \* 1 / (0.5 * 0.3) = 6.666666666666667
      <<STR_0_5, C_0_29, <<24859, 20338, 22598, 220, 0, 0, 0, 0>>, -50>>,   \* 1 / (0.5 * 0.29) = 6.8965517241379315
      <<STR_0_5, C_7, <<9362, 9362, 9362, 146, 0, 0, 0, 0>>, -54>>,   \* 1 / (0.5 * 7) = 0.2857142857142857
      <<C_0_7, STR_0_3, <<12483, 1560, 12483, 152, 0, 0, 0, 0>>, -50>>,   \* 1 / (0.7 * 0.3) = 4.761904761904762
      <<C_0_7, C_0_29, <<8394, 484, 20823, 157, 0, 0, 0, 0>>, -50>>,   \* 1 / (0.7 * 0.29) = 4.926108374384237
      <<C_0_7, C_7, <<18057, 8693, 32099, 208, 0, 0, 0, 0>>, -55>>,   \* 1 / (0.7 * 7) = 0.20408163265306126
      <<C_1_5, STR_0_3, <<7282, 25486, 7281, 142, 0, 0, 0, 0>>, -51>>,   \* 1 / (1.5 * 0.3) = 2.2222222222222223
      <<C_1_5, C_0_29, <<16573, 2636, 4143, 147, 0, 0, 0, 0>>, -51>>,   \* 1 / (1.5 * 0.29) = 2.298850574712644
      <<C_1_5, C_7, <<1560, 12483, 1560, 195, 0, 0, 0, 0>>, -56>>   \* 1 / (1.5 * 7) = 0.09523809523809523
    }

\* the density is the double 1 / (row * plant) of the table for the spacings
\* of the row that are in it
DerivedFromTable(row_m, plant_m, density) ==
    \A t \in ReciprocalAreas :
       row_m = ParseFloat(t[1]) /\ plant_m = ParseFloat(t[2]) =>
          density = Float("num", FALSE, t[3], t[4])

\* C20: in the plant generator a density that is absent, blank, unparseable
\* or not positive is replaced by 1 / (spacing_row_m * spacing_plant_m), by
\* exactly 0 when a spacing is zero or negative, and no error is raised; a
\* positive density of the row is used as it is
C20_DensityDerived ==
    /\ gen.pc # "failed"
    /\ gen.pc = "stored" =>
          IF DensityPositive THEN gen.density = ParseFloat(DensityCell)
          ELSE IF FloatLeqZero(gen.spacing_row) \/ FloatLeqZero(gen.spacing_plant)
               THEN gen.density = Float("zero", FALSE, NoLimbs, 0)
               ELSE DerivedFromTable(gen.spacing_row, gen.spacing_plant, gen.density)

\* C21: a failure of open, of the header's write or of the payload's write
\* leaves write_binary_db and main: the run is ended by the error, no
\* "Created" line is printed for the schema, the schemas after it are not
\* converted, and the files of the schemas before it stay as they were written
C21_WriteFailurePropagates ==
    /\ exc = "OSError" => pc = "failed"
    /\ pc = "failed" /\ exc = "OSError" =>
          /\ Outcomes(Sch, "Created") = {}
          /\ \A i \in 1..Len(Schemas) :
                /\ i > cur =>
                      /\ disk[Schemas[i]] = disk0[Schemas[i]]
                      /\ Outcomes(Schemas[i], "Converting") = {}
                      /\ Outcomes(Schemas[i], "Created") = {}
                /\ i < cur /\ csv[Schemas[i]].exists =>
                      /\ Cardinality(Outcomes(Schemas[i], "Created")) = 1
                      /\ WholeFile(disk[Schemas[i]].bytes)
                      /\ Len(disk[Schemas[i]].bytes)
                            = HEADER_SIZE + Len(csv[Schemas[i]].rows) * RecordSize(Schemas[i])

C21_Witness ==
    /\ pc = "failed" /\ exc = "OSError" /\ cur = 2
    /\ csv["plants"].exists /\ csv["irrigation"].exists
    /\ Len(disk["plants"].bytes) = HEADER_SIZE + 2 * PLANT_RECORD_SIZE
    /\ Len(csv["soils"].rows) >= 1
    /\ disk["soils"].exists /\ Len(disk["soils"].bytes) = HEADER_SIZE
    /\ disk["irrigation"] = disk0["irrigation"]

\* C22: at most one file is open at any moment; the CSV is open only while
\* convert_<s> reads its rows and the output only between open and the end of
\* the with-block of write_binary_db, each the file of the schema main is at;
\* once a function has returned or raised, nothing is open
C22_HandlesScoped ==
    /\ Cardinality(handles) <= 1
    /\ handles \subseteq {<<"csv", Sch>>, <<"bin", Sch>>}
    /\ <<"csv", Sch>> \in handles <=> pc \in {"rows", "assert"}
    /\ <<"bin", Sch>> \in handles <=> pc \in {"write_header", "write_data", "report"}
    /\ pc \in {"check", "header", "open", "summary", "done", "failed"} => handles = {}

\* a row has failed in convert_soils, after the plants were written
C22_Witness ==
    /\ pc = "failed" /\ exc = "struct.error" /\ cur = 2
    /\ rowIdx = 1
    /\ disk["plants"].exists /\ Len(disk["plants"].bytes) > HEADER_SIZE
    /\ handles = {}

\* the integer part, with its sign, of every decimal cell that is the text val
IntegerParts(val) ==
    {IF sg = <<>> THEN ip[2] ELSE 0 - ip[2] :
        sg \in {g \in SignParts : \E fp \in FracParts, jp \in IntParts : g \o jp[1] \o fp = val},
        ip \in {jp \in IntParts : \E fp \in FracParts, g \in SignParts : g \o jp[1] \o fp = val}}

\* C23: safe_int of a cell holding a finite decimal number is the integer
\* part of the number: it truncates toward zero, "40.0" gives 40, "12.9" 12,
\* "-3.7" -3 and "-0.5" 0
C23_TruncatesTowardZero ==
    si.pc = "return" =>
        /\ si.ret.exc = NoExc
        /\ IntegerParts(si.val) = {si.ret.v}
        /\ si.val = <<52, 48, 46, 48>> => si.ret.v = 40
        /\ si.val = <<49, 50, 46, 57>> => si.ret.v = 12
        /\ si.val = <<45, 51, 46, 55>> => si.ret.v = 0 - 3
        /\ si.val = <<45, 48, 46, 53>> => si.ret.v = 0

C23_Witness ==
    si.pc = "return" /\ si.val = <<45, 51, 46, 55>> /\ si.ret = IntOk(0 - 3)

\* the width of the name field in a record of schema s
NameWidth(s) == IF s = "plants" THEN 24 ELSE 15

\* the bytes are the UTF-8 encoding of the first k characters of the text, for
\* some k, followed by zeros up to the width
EncodesPrefix(bytes, text, width) ==
    \E k \in 0..Len(text) :
       /\ Len(Utf8(SubSeq(text, 1, k))) < width
       /\ bytes = Utf8(SubSeq(text, 1, k)) \o Zeros(width - Len(Utf8(SubSeq(text, 1, k))))

\* C24: encode_string never raises, and the name field of every record holds
\* the UTF-8 encoding of a prefix of the row's name and then zeros: the cut to
\* the field's width leaves no character cut in half
C24_NameIsValidUtf8 ==
    /\ exc # "UnicodeEncodeError"
    /\ pc = "assert" =>
          EncodesPrefix(SubSeq(record, NameOffset(Sch) + 1, NameOffset(Sch) + NameWidth(Sch)),
                        NameOf(Sch, RowNow), NameWidth(Sch))

\* cells with at most two fractional digits and a value in 0..2.55, with the
\* value times 100; cells with at most one and a value in 0..25.5, with the
\* value times 10
Hundredths ==
    { <<C_0_29, 29>>, <<C_2_5, 250>>, <<STR_0_3, 30>>, <<STR_0_5, 50>>, <<STR_1_0, 100>>,
      <<<<48, 46, 52>>, 40>>, <<<<48, 46, 54>>, 60>>, <<<<48, 46, 56>>, 80>>,
      <<<<49, 46, 49, 53>>, 115>> }
Tenths ==
    { <<C_7, 70>>, <<C_2_5, 25>>, <<C_12_9, 129>>, <<STR_0_5, 5>>, <<STR_1_0, 10>>,
      <<<<49, 46, 53>>, 15>> }

\* the columns stored as hundredths and as tenths, with the place (from 1) of
\* their byte in the record
HundredthsColumns(s) ==
    CASE s = "plants" -> { <<"kc_ini", 29>>, <<"kc_mid", 30>>, <<"kc_end", 31>>,
                           <<"depletion_fraction_p", 33>> }
      [] s = "soils" -> { <<"p_raw", 22>> }
      [] s = "irrigation" -> { <<"wetting_fraction", 18>> }
TenthsColumns(s) == IF s = "plants" THEN { <<"root_depth_max_m", 32>> } ELSE {}

\* the byte of each column of cols is the value of the table for its cell
StoredExactly(row, rec, cols, table) ==
    \A c \in cols : \A t \in table :
       c[1] \in DOMAIN row /\ row[c[1]] = t[1] => rec[c[2]] = t[2]

\* C25: a kc_ini, kc_mid, kc_end, depletion_fraction_p, p_raw or
\* wetting_fraction cell with at most two fractional digits and a value in
\* 0..2.55 is stored as exactly 100 times its value ("0.4" as 40), and a
\* root_depth_max_m cell with at most one fractional digit and a value in
\* 0..25.5 as exactly 10 times its value: never one unit too low
C25_QuantizationExact ==
    pc = "assert" =>
        /\ StoredExactly(RowNow, record, HundredthsColumns(Sch), Hundredths)
        /\ StoredExactly(RowNow, record, TenthsColumns(Sch), Tenths)

\* C26: in an irrigation record a depth_typical_mm or application_rate_mm_h
\* cell holding one negative number, such as "-5", is stored as 0
C26_NegativeIsZero ==
    pc = "assert" /\ Sch = "irrigation" =>
        /\ "depth_typical_mm" \in DOMAIN RowNow
              /\ RowNow["depth_typical_mm"] \in {C_Minus1, C_Minus5} => record[19] = 0
        /\ "application_rate_mm_h" \in DOMAIN RowNow
              /\ RowNow["application_rate_mm_h"] \in {C_Minus1, C_Minus5} => record[20] = 0

\* the cells that are "yes", "true" or "1" in some letter case, and those
\* that are not; the cells with a character that is not whitespace, and those
\* without
YesCells == {W_yes, W_YES, W_True, STR_1}
NoCells == {W_no, STR_0, C_Blank}
InkCells == {W_fruit, W_leaf}
BlankCells == {C_Space, C_Blank}

\* bit number b (from 0) of the byte
BitOf(byte, b) == (byte \div Pow2(b)) % 2

\* the bit is set when the cell of the column is in the set yes, clear when
\* it is in the set no or the CSV has no such column
BitFollows(bit, row, col, yes, no) ==
    /\ col \in DOMAIN row /\ row[col] \in yes => bit = 1
    /\ col \notin DOMAIN row \/ row[col] \in no => bit = 0

\* C28: the flags byte of a plant record is in 0..7: bit 0 is set exactly
\* when indoor_ok is "yes", "true" or "1" in any letter case, bit 1 exactly
\* when toxic_flag is, bit 2 exactly when edible_part has a character that is
\* not whitespace, each whatever the other two columns hold
C28_FlagBits ==
    pc = "assert" /\ Sch = "plants" =>
        /\ record[38] \in 0..7
        /\ BitFollows(BitOf(record[38], 0), RowNow, "indoor_ok", YesCells, NoCells)
        /\ BitFollows(BitOf(record[38], 1), RowNow, "toxic_flag", YesCells, NoCells)
        /\ BitFollows(BitOf(record[38], 2), RowNow, "edible_part", InkCells, BlankCells)

C28_Witness ==
    /\ pc = "assert" /\ Sch = "plants"
    /\ RowNow = [PlantTomato EXCEPT !["toxic_flag"] = W_True]
    /\ PlantTomato["indoor_ok"] = W_no /\ PlantTomato["edible_part"] = W_fruit
    /\ record[38] = 6

\* the 16 bytes of the file of a schema without records
EmptyDatabase(s) ==
    (CASE s = "plants" -> <<84, 78, 76, 80>>
       [] s = "soils" -> <<76, 73, 79, 83>>
       [] s = "irrigation" -> <<71, 82, 82, 73>>)
    \o <<1, 0>> \o <<0, 0>> \o <<0, 0, 0, 0>>
    \o (IF s = "plants" THEN <<48, 0>> ELSE <<24, 0>>) \o <<0, 0>>

\* C29: a CSV that exists and has no data rows gives a file of exactly 16
\* bytes: the schema's magic, version 1, count 0, crc32 0, the schema's
\* record_size, reserved 0; converting it does not fail, and the run reports
\* the file as created, not as skipped
C29_EmptyCsv ==
    /\ \A i \in 1..Len(Schemas) :
          Completed(i) /\ csv[Schemas[i]].rows = <<>> =>
             /\ disk[Schemas[i]].exists
             /\ disk[Schemas[i]].bytes = EmptyDatabase(Schemas[i])
    /\ pc = "failed" /\ csv[Sch].rows = <<>> => exc = "OSError"
    /\ pc = "done" =>
          \A s \in DOMAIN csv :
             csv[s].exists /\ csv[s].rows = <<>> =>
                /\ Outcomes(s, "WARNING") = {}
                /\ \E i \in Outcomes(s, "Created") : out[i].count = 0 /\ out[i].size = 16

\* a run is over that has replaced a stale soils.bin by the one of an empty CSV
C29_Witness ==
    /\ pc = "done"
    /\ csv["soils"].exists /\ csv["soils"].rows = <<>>
    /\ disk0["soils"] = StaleFile
    /\ Len(disk["soils"].bytes) = HEADER_SIZE

\* the cell the name of a plant row is to be taken from
NameCell(row) ==
    IF "common_name_en" \in DOMAIN row THEN row["common_name_en"]
    ELSE IF "common_name_ro" \in DOMAIN row THEN row["common_name_ro"]
    ELSE <<>>

\* the first n characters of the text
FirstChars(text, n) == SubSeq(text, 1, IF Len(text) < n THEN Len(text) ELSE n)

\* the first n bytes of the characters as UTF-8, then zeros up to n + 1 bytes
NameField(chars, n) ==
    SubSeq(Utf8(chars) \o Zeros(n + 1), 1, n) \o <<0>>

\* C30: the name of a plant record is the first 23 characters of
\* common_name_en when the CSV has that column, even when the cell is empty;
\* of common_name_ro when it has not; empty when it has neither: an empty
\* English name beside a Romanian one gives a name field of zeros
C30_NameColumn ==
    pc = "assert" /\ Sch = "plants" =>
        /\ SubSeq(record, 5, 28) = NameField(FirstChars(NameCell(RowNow), 23), 23)
        /\ "common_name_en" \in DOMAIN RowNow /\ RowNow["common_name_en"] = <<>> =>
              SubSeq(record, 5, 28) = Zeros(24)
        /\ DOMAIN RowNow \cap {"common_name_en", "common_name_ro"} = {} =>
              SubSeq(record, 5, 28) = Zeros(24)

C30_Witness ==
    /\ pc = "assert" /\ Sch = "plants"
    /\ RowNow = [PlantTomato EXCEPT !["common_name_en"] = <<>>]
    /\ RowNow["common_name_ro"] = N_Rosie
    /\ SubSeq(record, 5, 28) = Zeros(24)

\* the run on a long CSV never writes: nothing of the output file changes
\* and the run is in the loop, at the header, or has failed
LongNeverWrites ==
    /\ big.file = big.file0
    /\ big.pc \in {"rows", "header", "failed"}

\* a file written whole counts its records and numbers its plants as they are
LongFileFaithful ==
    big.pc = "done" =>
        /\ big.file.kind = "written"
        /\ big.file.records = big.rows
        /\ Len(big.file.header) = HEADER_SIZE
        /\ U16At(big.file.header, 6) = big.rows
        /\ big.schema = "plants" => U16At(big.file.last, 0) = big.rows - 1

\* the run fails only on more than 65535 rows, with struct.error
LongFailure ==
    big.pc = "failed" => big.exc = "struct.error" /\ big.rows > 65535

\* C27 as stated: with more than 65535 rows the run fails before the output
\* is opened, for plants while packing identifier 65536 in convert_plants,
\* for soils and irrigation while packing count in pack_header; no file
\* with a wrapped count or identifier is written, an older file is untouched
C27_AsStated ==
    big.pc # "idle" =>
        /\ big.rows > 65535 => LongNeverWrites
        /\ LongFileFaithful
        /\ LongFailure
        /\ big.pc = "failed" =>
              IF big.schema = "plants"
              THEN big.site = "convert" /\ big.plant_id = 65536
              ELSE big.site = "pack_header" /\ big.count = big.rows

\* C27: with more than 65535 rows the run fails before the output is
\* opened: for plants with more than 65536 rows while packing identifier
\* 65536 in convert_plants; for plants with exactly 65536 rows (identifiers
\* 0..65535), and for soils and irrigation, while packing count in
\* pack_header; no file with a wrapped count or identifier is written and
\* an older file is untouched
C27_NoWrappedCount ==
    big.pc # "idle" =>
        /\ big.rows > 65535 => LongNeverWrites
        /\ LongFileFaithful
        /\ LongFailure
        /\ big.pc = "failed" =>
              IF big.schema = "plants" /\ big.rows > 65536
              THEN big.site = "convert" /\ big.plant_id = 65536 /\ big.rowIdx = 65536
              ELSE big.site = "pack_header" /\ big.count = big.rows

C27_Witness ==
    /\ big.pc = "failed"
    /\ big.schema = "plants"
    /\ big.rows = 65536
    /\ big.site = "pack_header"
    /\ big.last = <<255, 255>>
    /\ big.file = big.file0
    /\ big.file.kind = "stale"

=============================================================================
